---- MODULE Spec2Model ----
(***************************************************************************)
(* Verification model of the IT-operations bot: the dialogue engine        *)
(* (app/services/dialogue_service.py), the Slack transport                 *)
(* (app/services/slack_service.py) and the Redis state store               *)
(* (app/services/state_service.py).                                        *)
(*                                                                         *)
(* Python values are modelled as follows.                                  *)
(*   str   : a sequence of Unicode code points (so len, lower, substring   *)
(*           search and the CJK range test are computed, not assumed);     *)
(*   dict  : a function whose domain is the set of keys that are present;  *)
(*   None  : the value None below where a dict or a str is expected, and   *)
(*           the string NoneStr where a tag (waiting_for, action_type,     *)
(*           selected_option) is expected;                                 *)
(*   raise : an outcome record of kind "raise".                            *)
(***************************************************************************)
EXTENDS Integers, Sequences, FiniteSets, TLC

\* ------------------------------------------------------------------------
\* Python values
\* ------------------------------------------------------------------------
None == [none |-> TRUE]
NoneStr == "None"
EmptyDict == << >>

\* dict.get(key, default)
Get(d, k, default) == IF k \in DOMAIN d THEN d[k] ELSE default

\* truth value of a dict-or-None (None and {} are falsy)
TruthyDict(d) == d # None /\ DOMAIN d # {}

\* truth value of a str-or-None (None and "" are falsy)
TruthyStr(s) == s # None /\ s # << >>

\* outcome of a Python call: a returned value or a raised exception, with
\* the downstream client calls made on the way
Ret(v, calls) == [kind |-> "return", value |-> v, calls |-> calls]
Raise(exc, calls) == [kind |-> "raise", value |-> [exc |-> exc], calls |-> calls]

\* ------------------------------------------------------------------------
\* Strings
\* ------------------------------------------------------------------------
\* the texts of the sample turns
Txt ==
    [empty |->
         << >>,  \* ""
     yes |->
         <<121, 101, 115>>,  \* "yes"
     no |->
         <<110, 111>>,  \* "no"
     y |->
         <<121>>,  \* "y"
     book |->
         <<98, 111, 111, 107>>,  \* "book"
     shi |->
         <<26159>>,  \* "是"
     inc |->
         <<73, 78, 67, 48, 48, 49, 48, 48, 48, 49>>,  \* "INC0010001"
     req |->
         <<82, 69, 81, 49, 50, 51, 52, 53>>,  \* "REQ12345"
     inc1 |->
         <<73, 78, 67, 49>>,  \* "INC1"
     lapnet |->
         <<76, 97, 112, 116, 111, 112, 32, 78, 69, 84, 87, 79, 82, 75>>,  \* "Laptop NETWORK"
     progpc |->
         <<112, 97, 115, 115, 119, 111, 114, 100, 32, 112, 114, 111, 103, 114, 97, 109, 32, 111, 110, 32, 109, 121, 32, 99, 111, 109, 112, 117, 116, 101, 114>>,  \* "password program on my computer"
     laptop |->
         <<109, 121, 32, 108, 97, 112, 116, 111, 112, 32, 105, 115, 32, 98, 114, 111, 107, 101, 110>>,  \* "my laptop is broken"
     zoom |->
         <<90, 111, 111, 109>>,  \* "Zoom"
     reset |->
         <<114, 101, 115, 101, 116, 32, 112, 97, 115, 115, 119, 111, 114, 100>>]  \* "reset password"

S_INC == <<73, 78, 67>>  \* "INC"
S_inc == <<105, 110, 99>>  \* "inc"


\* the keywords of handle_create_ticket
IssueWords ==
    [network |-> <<110, 101, 116, 119, 111, 114, 107>>,  \* "network"
     password |-> <<112, 97, 115, 115, 119, 111, 114, 100>>,  \* "password"
     software |-> <<115, 111, 102, 116, 119, 97, 114, 101>>,  \* "software"
     program |-> <<112, 114, 111, 103, 114, 97, 109>>,  \* "program"
     application |-> <<97, 112, 112, 108, 105, 99, 97, 116, 105, 111, 110>>,  \* "application"
     hardware |-> <<104, 97, 114, 100, 119, 97, 114, 101>>,  \* "hardware"
     computer |-> <<99, 111, 109, 112, 117, 116, 101, 114>>,  \* "computer"
     laptop |-> <<108, 97, 112, 116, 111, 112>>]  \* "laptop"

\* the issue types of handle_create_ticket
IssueTypes ==
    [generic |-> <<73, 84, 32, 115, 117, 112, 112, 111, 114, 116, 32, 114, 101, 113, 117, 101, 115, 116>>,  \* "IT support request"
     network |-> <<78, 101, 116, 119, 111, 114, 107, 32, 105, 115, 115, 117, 101>>,  \* "Network issue"
     password |-> <<80, 97, 115, 115, 119, 111, 114, 100, 32, 105, 115, 115, 117, 101>>,  \* "Password issue"
     software |-> <<83, 111, 102, 116, 119, 97, 114, 101, 32, 105, 115, 115, 117, 101>>,  \* "Software issue"
     hardware |-> <<72, 97, 114, 100, 119, 97, 114, 101, 32, 105, 115, 115, 117, 101>>]  \* "Hardware issue"

\* the two words of the password-reset shortcut of process_and_respond
ResetWords ==
    [password |-> <<112, 97, 115, 115, 119, 111, 114, 100>>,  \* "password"
     reset |-> <<114, 101, 115, 101, 116>>]  \* "reset"

D_default == <<73, 84, 32, 83, 117, 112, 112, 111, 114, 116, 32, 82, 101, 113, 117, 101, 115, 116>>  \* "IT Support Request"
D_at == <<32, 97, 116, 32>>  \* " at "
D_reqsw == <<116, 104, 101, 32, 114, 101, 113, 117, 101, 115, 116, 101, 100, 32, 115, 111, 102, 116, 119, 97, 114, 101>>  \* "the requested software"
D_unknownsw == <<85, 110, 107, 110, 111, 119, 110, 32, 115, 111, 102, 116, 119, 97, 114, 101>>  \* "Unknown software"
L_bldgA == <<66, 117, 105, 108, 100, 105, 110, 103, 32, 65>>  \* "Building A"

\* one character of str.lower(): A-Z map to a-z, everything else modelled
\* here (ASCII and CJK) is unchanged
LowerChar(c) == IF c >= 65 /\ c <= 90 THEN c + 32 ELSE c

\* str.lower()
Lower(s) == [i \in 1..Len(s) |-> LowerChar(s[i])]

\* the range test of contains_chinese
IsCJK(c) == c >= 19968 /\ c <= 40959

\* re \d restricted to the ASCII digits
IsDigit(c) == c >= 48 /\ c <= 57

\* characters removed by str.strip(): space, \t \n \v \f \r
IsSpace(c) == c = 32 \/ (c >= 9 /\ c <= 13)

\* `word in text`
Contains(text, word) ==
    \E i \in 1..(Len(text) - Len(word) + 1) :
        \A j \in 1..Len(word) : text[i + j - 1] = word[j]

\* str.strip()
Strip(s) ==
    LET idx == {i \in 1..Len(s) : ~IsSpace(s[i])}
    IN  IF idx = {} THEN << >>
        ELSE LET lo == CHOOSE i \in idx : \A j \in idx : i <= j
                 hi == CHOOSE i \in idx : \A j \in idx : i >= j
             IN  SubSeq(s, lo, hi)

\* re.search(r'(INC\d+)', text, re.IGNORECASE): group(1) of the leftmost
\* match, the digit run taken greedily; None when there is no match
SearchINC(text) ==
    LET starts == {i \in 1..(Len(text) - 3) :
                      /\ Lower(SubSeq(text, i, i + 2)) = S_inc
                      /\ IsDigit(text[i + 3])}
    IN  IF starts = {} THEN None
        ELSE LET i == CHOOSE a \in starts : \A b \in starts : a <= b
                 ends == {e \in (i + 3)..Len(text) :
                             \A k \in (i + 3)..e : IsDigit(text[k])}
                 e == CHOOSE a \in ends : \A b \in ends : a >= b
             IN  SubSeq(text, i, e)

\* ------------------------------------------------------------------------
\* dialogue_service.py
\* ------------------------------------------------------------------------
contains_chinese(text) == \E i \in 1..Len(text) : IsCJK(text[i])

\* a reply text: the template chosen, its language and the values
\* interpolated into it
Response(tmpl, lang, args) == [tmpl |-> tmpl, lang |-> lang, args |-> args]

\* the affirmative words of handle_confirmation_input and
\* handle_software_confirmation_input
AffirmativeWords ==
    {<<121, 101, 115>>,  \* "yes"
     <<121, 101, 97, 104>>,  \* "yeah"
     <<115, 117, 114, 101>>,  \* "sure"
     <<111, 107>>,  \* "ok"
     <<111, 107, 97, 121>>,  \* "okay"
     <<121, 101, 112>>,  \* "yep"
     <<99, 111, 110, 102, 105, 114, 109>>,  \* "confirm"
     <<26159>>,  \* "是"
     <<30830, 35748>>}  \* "确认"

\* any(word in text for word in [...]); the handlers pass text.lower()
IsAffirmative(text) == \E w \in AffirmativeWords : Contains(text, w)

\* a call of a downstream client made by the engine or the transport
ClientCall(client, args) == [client |-> client, args |-> args]

\* what a downstream client can do when called: succeed, report an error in
\* its result, or raise
ClientOutcomes == {"ok", "error", "raise"}

\* variant that calls the client a second time when the first call raises
LookupTicket_m(ticket_number, env, withUpdated) ==
    LET call == ClientCall("get_ticket_status", << ticket_number >>)
        calls == IF env = "raise" THEN << call, call >> ELSE << call >>
    IN  IF env = "raise"
        THEN Ret([action |-> "error",
                  response |-> Response("status_lookup_failed", "en", << >>),
                  next_state |-> None], calls)
        ELSE IF env = "error"
        THEN Ret([action |-> "report_error",
                  response |-> Response("ticket_not_found", "en", << ticket_number >>),
                  next_state |-> None], calls)
        ELSE Ret([action |-> "report_status",
                  response |-> Response(IF withUpdated THEN "ticket_status_updated"
                                        ELSE "ticket_status", "en", << ticket_number >>),
                  next_state |-> None], calls)

\* servicenow.get_ticket_status(ticket_number) and the rendering of its
\* result, shared by handle_ticket_number_input (withUpdated) and
\* handle_check_ticket_status
LookupTicket(ticket_number, env, withUpdated) ==
    LET calls == << ClientCall("get_ticket_status", << ticket_number >>) >>
    IN  IF env = "raise"
        THEN Ret([action |-> "error",
                  response |-> Response("status_lookup_failed", "en", << >>),
                  next_state |-> None], calls)
        ELSE IF env = "error"
        THEN Ret([action |-> "report_error",
                  response |-> Response("ticket_not_found", "en", << ticket_number >>),
                  next_state |-> None], calls)
        ELSE Ret([action |-> "report_status",
                  response |-> Response(IF withUpdated THEN "ticket_status_updated"
                                        ELSE "ticket_status", "en", << ticket_number >>),
                  next_state |-> None], calls)

\* variant that keeps waiting for a ticket number when the ticket is not
\* found
handle_ticket_number_input_m(intent_data, current_state, env) ==
    LET Finish(ticket_number) ==
            IF ~TruthyStr(ticket_number)
            THEN Ret([action |-> "ask_again",
                      response |-> Response("invalid_ticket_number", "en", << >>),
                      next_state |-> current_state], << >>)
            ELSE LET out == LookupTicket(ticket_number, env, TRUE)
                 IN  IF env = "error"
                     THEN Ret([out.value EXCEPT !["next_state"] = current_state],
                              out.calls)
                     ELSE out
    IN  IF "entities" \in DOMAIN intent_data
           /\ "TICKET_NUMBER" \in DOMAIN intent_data["entities"]
        THEN IF Len(intent_data["entities"]["TICKET_NUMBER"]) = 0
             THEN Raise("IndexError", << >>)
             ELSE Finish(intent_data["entities"]["TICKET_NUMBER"][1])
        ELSE IF "text" \in DOMAIN intent_data
        THEN Finish(SearchINC(intent_data["text"]))
        ELSE Finish(None)

handle_ticket_number_input(intent_data, current_state, env) ==
    LET Finish(ticket_number) ==
            IF ~TruthyStr(ticket_number)
            THEN Ret([action |-> "ask_again",
                      response |-> Response("invalid_ticket_number", "en", << >>),
                      next_state |-> current_state], << >>)
            ELSE LookupTicket(ticket_number, env, TRUE)
    IN  IF "entities" \in DOMAIN intent_data
           /\ "TICKET_NUMBER" \in DOMAIN intent_data["entities"]
        THEN IF Len(intent_data["entities"]["TICKET_NUMBER"]) = 0
             THEN Raise("IndexError", << >>)
             ELSE Finish(intent_data["entities"]["TICKET_NUMBER"][1])
        ELSE IF "text" \in DOMAIN intent_data
        THEN Finish(SearchINC(intent_data["text"]))
        ELSE Finish(None)

\* variant that keeps the ticket_details state after creating the ticket
handle_ticket_details_input_m(intent_data, current_state, env) ==
    LET description == Get(intent_data, "text", Txt.empty)
        urgency == Get(current_state, "urgency", "3")
        calls == << ClientCall("create_servicenow_ticket",
                       << Get(current_state, "short_description", D_default),
                          description, urgency >>) >>
    IN  IF description = Txt.empty \/ Len(description) < 5
        THEN Ret([action |-> "ask_again",
                  response |-> Response("need_more_details", "en", << >>),
                  next_state |-> current_state], << >>)
        ELSE IF env = "raise"
        THEN Ret([action |-> "error",
                  response |-> Response("create_failed", "en", << >>),
                  next_state |-> None], calls)
        ELSE IF env = "error"
        THEN Ret([action |-> "report_error",
                  response |-> Response("create_error", "en", << >>),
                  next_state |-> None], calls)
        ELSE Ret([action |-> "ticket_created",
                  response |-> Response("ticket_created", "en", << >>),
                  next_state |-> current_state], calls)

handle_ticket_details_input(intent_data, current_state, env) ==
    LET description == Get(intent_data, "text", Txt.empty)
        urgency == Get(current_state, "urgency", "3")
        calls == << ClientCall("create_servicenow_ticket",
                       << Get(current_state, "short_description", D_default),
                          description, urgency >>) >>
    IN  IF description = Txt.empty \/ Len(description) < 5
        THEN Ret([action |-> "ask_again",
                  response |-> Response("need_more_details", "en", << >>),
                  next_state |-> current_state], << >>)
        ELSE IF env = "raise"
        THEN Ret([action |-> "error",
                  response |-> Response("create_failed", "en", << >>),
                  next_state |-> None], calls)
        ELSE IF env = "error"
        THEN Ret([action |-> "report_error",
                  response |-> Response("create_error", "en", << >>),
                  next_state |-> None], calls)
        ELSE Ret([action |-> "ticket_created",
                  response |-> Response("ticket_created", "en", << >>),
                  next_state |-> None], calls)

\* variant that takes the password-reset branch also when the state names
\* the flow in its intent field
handle_confirmation_input_m(intent_data, current_state) ==
    LET text == Lower(Get(intent_data, "text", Txt.empty))
        action_type == Get(current_state, "action_type", NoneStr)
    IN  IF IsAffirmative(text)
        THEN IF action_type = "password_reset"
                \/ Get(current_state, "intent", NoneStr) = "password_reset"
             THEN Ret([action |-> "password_reset_confirmed",
                       response |-> Response("ask_employee_id", "en", << >>),
                       next_state |-> [waiting_for |-> "employee_id",
                                       action_type |-> "password_reset"]], << >>)
             ELSE IF action_type = "create_ticket"
             THEN Ret([action |-> "select_ticket_urgency",
                       response |-> Response("select_urgency", "en", << >>),
                       response_type |-> "blocks",
                       blocks_config |-> [type |-> "select_urgency"],
                       next_state |-> [waiting_for |-> "urgency_selection",
                                       action_type |-> "create_ticket",
                                       short_description |->
                                           Get(current_state, "short_description", D_default)]],
                      << >>)
             ELSE Ret([action |-> "confirmed",
                       response |-> Response("confirmed", "en", << >>),
                       next_state |-> None], << >>)
        ELSE Ret([action |-> "cancelled",
                  response |-> Response("cancelled", "en", << >>),
                  next_state |-> None], << >>)

handle_confirmation_input(intent_data, current_state) ==
    LET text == Lower(Get(intent_data, "text", Txt.empty))
        action_type == Get(current_state, "action_type", NoneStr)
    IN  IF IsAffirmative(text)
        THEN IF action_type = "password_reset"
             THEN Ret([action |-> "password_reset_confirmed",
                       response |-> Response("ask_employee_id", "en", << >>),
                       next_state |-> [waiting_for |-> "employee_id",
                                       action_type |-> "password_reset"]], << >>)
             ELSE IF action_type = "create_ticket"
             THEN Ret([action |-> "select_ticket_urgency",
                       response |-> Response("select_urgency", "en", << >>),
                       response_type |-> "blocks",
                       blocks_config |-> [type |-> "select_urgency"],
                       next_state |-> [waiting_for |-> "urgency_selection",
                                       action_type |-> "create_ticket",
                                       short_description |->
                                           Get(current_state, "short_description", D_default)]],
                      << >>)
             ELSE Ret([action |-> "confirmed",
                       response |-> Response("confirmed", "en", << >>),
                       next_state |-> None], << >>)
        ELSE Ret([action |-> "cancelled",
                  response |-> Response("cancelled", "en", << >>),
                  next_state |-> None], << >>)

\* variant that keeps the default urgency whatever option was selected
handle_urgency_selection_m(intent_data, current_state) ==
    Ret([action |-> "create_ticket_urgency_selected",
         response |-> Response("describe_issue", "en", << >>),
         next_state |-> [waiting_for |-> "ticket_details",
                         action_type |-> "create_ticket",
                         short_description |->
                             Get(current_state, "short_description", D_default),
                         urgency |-> "3"]], << >>)

handle_urgency_selection(intent_data, current_state) ==
    LET selected_option == Get(intent_data, "selected_option", NoneStr)
        selected_urgency == IF selected_option = NoneStr \/ selected_option = ""
                            THEN "3" ELSE selected_option
    IN  Ret([action |-> "create_ticket_urgency_selected",
             response |-> Response("describe_issue", "en", << >>),
             next_state |-> [waiting_for |-> "ticket_details",
                             action_type |-> "create_ticket",
                             short_description |->
                                 Get(current_state, "short_description", D_default),
                             urgency |-> selected_urgency]], << >>)

handle_check_ticket_status(intent_data, entities, env) ==
    IF "TICKET_NUMBER" \in DOMAIN entities /\ Len(entities["TICKET_NUMBER"]) > 0
    THEN LookupTicket(entities["TICKET_NUMBER"][1], env, FALSE)
    ELSE Ret([action |-> "ask_ticket_number",
              response |-> Response("ask_ticket_number", "en", << >>),
              next_state |-> [waiting_for |-> "ticket_number",
                              action_type |-> "check_ticket"]], << >>)

handle_reset_password(intent_data) ==
    Ret([action |-> "confirm_reset",
         response |-> Response("confirm_reset", "en", << >>),
         response_type |-> "blocks",
         blocks_config |-> [type |-> "confirm_password_reset"],
         next_state |-> [waiting_for |-> "confirmation",
                         action_type |-> "password_reset"]], << >>)

\* variant that checks the hardware keywords first
IssueType_m(text) ==
    LET t == Lower(text)
    IN  IF Contains(t, IssueWords.hardware) \/ Contains(t, IssueWords.computer)
           \/ Contains(t, IssueWords.laptop) THEN IssueTypes.hardware
        ELSE IF Contains(t, IssueWords.network) THEN IssueTypes.network
        ELSE IF Contains(t, IssueWords.password) THEN IssueTypes.password
        ELSE IF Contains(t, IssueWords.software) \/ Contains(t, IssueWords.program)
                \/ Contains(t, IssueWords.application) THEN IssueTypes.software
        ELSE IssueTypes.generic

\* the first-match-wins keyword rules of handle_create_ticket
IssueType(text) ==
    LET t == Lower(text)
    IN  IF Contains(t, IssueWords.network) THEN IssueTypes.network
        ELSE IF Contains(t, IssueWords.password) THEN IssueTypes.password
        ELSE IF Contains(t, IssueWords.software) \/ Contains(t, IssueWords.program)
                \/ Contains(t, IssueWords.application) THEN IssueTypes.software
        ELSE IF Contains(t, IssueWords.hardware) \/ Contains(t, IssueWords.computer)
                \/ Contains(t, IssueWords.laptop) THEN IssueTypes.hardware
        ELSE IssueTypes.generic

\* variant that asks for the details at once, without a confirmation
handle_create_ticket_m(intent_data, entities) ==
    Ret([action |-> "confirm_create_ticket",
         response |-> Response("confirm_create_ticket", "en", << D_default >>),
         next_state |-> [waiting_for |-> "ticket_details",
                         action_type |-> "create_ticket",
                         short_description |-> D_default,
                         urgency |-> "3"]], << >>)

handle_create_ticket(intent_data, entities) ==
    LET location == IF "LOC" \in DOMAIN entities /\ Len(entities["LOC"]) > 0
                    THEN entities["LOC"][1] ELSE Txt.empty
        issue_type == IssueType(Get(intent_data, "text", Txt.empty))
        short_description == IF location # Txt.empty
                             THEN issue_type \o D_at \o location
                             ELSE issue_type
    IN  Ret([action |-> "confirm_create_ticket",
             response |-> Response("confirm_create_ticket", "en", << short_description >>),
             next_state |-> [waiting_for |-> "confirmation",
                             action_type |-> "create_ticket",
                             short_description |-> short_description,
                             urgency |-> "3",
                             location |-> location]], << >>)

\* variant that ends the flow when the software name is too short
handle_software_name_input_m(intent_data, current_state) ==
    LET typed == Strip(Get(intent_data, "text", Txt.empty))
        Confirm(software_name) ==
            Ret([action |-> "confirm_software_request",
                 response |-> Response("confirm_software", "en", << software_name >>),
                 next_state |-> [waiting_for |-> "software_confirmation",
                                 action_type |-> "request_software",
                                 software_name |-> software_name]], << >>)
    IN  IF typed = Txt.empty \/ Len(typed) < 2
        THEN Ret([action |-> "ask_again",
                  response |-> Response("ask_software_again", "en", << >>),
                  next_state |-> None], << >>)
        ELSE IF "entities" \in DOMAIN intent_data
                /\ "SOFTWARE_NAME" \in DOMAIN intent_data["entities"]
        THEN IF Len(intent_data["entities"]["SOFTWARE_NAME"]) = 0
             THEN Raise("IndexError", << >>)
             ELSE Confirm(intent_data["entities"]["SOFTWARE_NAME"][1])
        ELSE Confirm(typed)

handle_software_name_input(intent_data, current_state) ==
    LET typed == Strip(Get(intent_data, "text", Txt.empty))
        Confirm(software_name) ==
            Ret([action |-> "confirm_software_request",
                 response |-> Response("confirm_software", "en", << software_name >>),
                 next_state |-> [waiting_for |-> "software_confirmation",
                                 action_type |-> "request_software",
                                 software_name |-> software_name]], << >>)
    IN  IF typed = Txt.empty \/ Len(typed) < 2
        THEN Ret([action |-> "ask_again",
                  response |-> Response("ask_software_again", "en", << >>),
                  next_state |-> current_state], << >>)
        ELSE IF "entities" \in DOMAIN intent_data
                /\ "SOFTWARE_NAME" \in DOMAIN intent_data["entities"]
        THEN IF Len(intent_data["entities"]["SOFTWARE_NAME"]) = 0
             THEN Raise("IndexError", << >>)
             ELSE Confirm(intent_data["entities"]["SOFTWARE_NAME"][1])
        ELSE Confirm(typed)

\* variant that submits the request whatever the reply is
handle_software_confirmation_input_m(intent_data, current_state) ==
    LET software_name == Get(current_state, "software_name", D_reqsw)
    IN  Ret([action |-> "execute_software_request",
             details |-> [software_name |-> software_name],
             response |-> Response("software_submitted", "en", << software_name >>),
             next_state |-> None], << >>)

handle_software_confirmation_input(intent_data, current_state) ==
    LET text == Lower(Get(intent_data, "text", Txt.empty))
        software_name == Get(current_state, "software_name", D_reqsw)
    IN  IF IsAffirmative(text)
        THEN Ret([action |-> "execute_software_request",
                  details |-> [software_name |-> software_name],
                  response |-> Response("software_submitted", "en", << software_name >>),
                  next_state |-> None], << >>)
        ELSE Ret([action |-> "ask_software_name",
                  response |-> Response("ask_correct_software", "en", << >>),
                  next_state |-> [waiting_for |-> "software_name",
                                  action_type |-> "request_software"]], << >>)

handle_request_software(intent_data, entities) ==
    IF "SOFTWARE_NAME" \in DOMAIN entities /\ Len(entities["SOFTWARE_NAME"]) > 0
    THEN Ret([action |-> "confirm_software_request",
              response |-> Response("confirm_software_seen", "en",
                                    << entities["SOFTWARE_NAME"][1] >>),
              next_state |-> [waiting_for |-> "software_confirmation",
                              action_type |-> "request_software",
                              software_name |-> entities["SOFTWARE_NAME"][1]]], << >>)
    ELSE Ret([action |-> "ask_software_name",
              response |-> Response("ask_software_name", "en", << >>),
              next_state |-> [waiting_for |-> "software_name",
                              action_type |-> "request_software"]], << >>)

\* the slots get_next_action binds to a state handler
HandledSlots ==
    {"kb_query", "ticket_number", "ticket_details", "confirmation",
     "urgency_selection", "software_name", "software_confirmation"}

\* get_next_action, lines 62-106: the dispatch on current_state["waiting_for"]
StateDispatch(intent_data, current_state, env) ==
    LET waiting_for == Get(current_state, "waiting_for", NoneStr)
    IN  CASE waiting_for = "ticket_number" ->
                 handle_ticket_number_input(intent_data, current_state, env)
          [] waiting_for = "ticket_details" ->
                 handle_ticket_details_input(intent_data, current_state, env)
          [] waiting_for = "confirmation" ->
                 handle_confirmation_input(intent_data, current_state)
          [] waiting_for = "urgency_selection" ->
                 handle_urgency_selection(intent_data, current_state)
          [] waiting_for = "software_name" ->
                 handle_software_name_input(intent_data, current_state)
          [] waiting_for = "software_confirmation" ->
                 handle_software_confirmation_input(intent_data, current_state)

\* get_next_action, lines 108-178: the dispatch on intent_data["intent"]
IntentDispatch(intent_data, env) ==
    LET text == Get(intent_data, "text", Txt.empty)
        lang == IF contains_chinese(text) THEN "zh" ELSE "en"
        intent == Get(intent_data, "intent", "unknown")
        entities == Get(intent_data, "entities", EmptyDict)
    IN  CASE intent = "check_ticket_status" ->
                 handle_check_ticket_status(intent_data, entities, env)
          [] intent = "reset_password" -> handle_reset_password(intent_data)
          [] intent = "create_ticket" -> handle_create_ticket(intent_data, entities)
          [] intent = "request_software" -> handle_request_software(intent_data, entities)
          [] intent = "greeting" ->
                 Ret([action |-> "greeting",
                      response |-> Response("greeting", lang, << >>),
                      next_state |-> None], << >>)
          [] intent = "general_question" ->
                 Ret([action |-> "respond_general",
                      response |-> Response("capabilities", lang, << >>),
                      next_state |-> None], << >>)
          [] intent = "find_kb_article" ->
                 Ret([action |-> "ask_kb_query",
                      response |-> Response("ask_kb_query", lang, << >>),
                      next_state |-> [waiting_for |-> "kb_query"]], << >>)
          [] OTHER ->
                 Ret([action |-> "clarify",
                      response |-> Response("clarify", lang, << >>),
                      next_state |-> None], << >>)

\* the body of the try block of get_next_action
NextActionBody(intent_data, current_state, env) ==
    LET text == Get(intent_data, "text", Txt.empty)
        lang == IF contains_chinese(text) THEN "zh" ELSE "en"
    IN  IF TruthyDict(current_state)
           /\ Get(current_state, "waiting_for", NoneStr) = "kb_query"
        THEN LET calls == << ClientCall("get_answer_from_kb", << text >>) >>
             IN  IF env = "raise"
                 THEN Ret([response |-> Response("kb_error", lang, << >>),
                           next_state |-> None], calls)
                 ELSE Ret([action |-> "provide_kb_answer",
                           response |-> Response("kb_answer", "kb", << text >>),
                           next_state |-> None], calls)
        ELSE IF current_state = None
        THEN Raise("AttributeError", << >>)
        ELSE IF Get(current_state, "waiting_for", NoneStr) \in HandledSlots \ {"kb_query"}
        THEN StateDispatch(intent_data, current_state, env)
        ELSE IntentDispatch(intent_data, env)

\* get_next_action(intent_data, current_state): the try block and the
\* except clause that turns any exception into an apology without an action
get_next_action(intent_data, current_state, env) ==
    LET text == Get(intent_data, "text", Txt.empty)
        lang == IF contains_chinese(text) THEN "zh" ELSE "en"
        body == NextActionBody(intent_data, current_state, env)
    IN  IF body.kind = "raise"
        THEN Ret([response |-> Response("processing_error", lang, << >>),
                  next_state |-> None], body.calls)
        ELSE body

\* ------------------------------------------------------------------------
\* nlu_service.py
\* ------------------------------------------------------------------------
\* the English keywords of understand_intent
NluWords ==
    [status |-> <<115, 116, 97, 116, 117, 115>>,  \* "status"
     check |-> <<99, 104, 101, 99, 107>>,  \* "check"
     ticket |-> <<116, 105, 99, 107, 101, 116>>,  \* "ticket"
     knowledge |-> <<107, 110, 111, 119, 108, 101, 100, 103, 101>>,  \* "knowledge"
     article |-> <<97, 114, 116, 105, 99, 108, 101>>,  \* "article"
     guide |-> <<103, 117, 105, 100, 101>>,  \* "guide"
     howto |-> <<104, 111, 119, 32, 116, 111>>,  \* "how to"
     vpn |-> <<118, 112, 110>>,  \* "vpn"
     app |-> <<97, 112, 112>>,  \* "app"
     software |-> <<115, 111, 102, 116, 119, 97, 114, 101>>,  \* "software"
     application |-> <<97, 112, 112, 108, 105, 99, 97, 116, 105, 111, 110>>]  \* "application"

\* the Chinese keywords of understand_intent
ZhWords ==
    [cha |-> <<26597>>,  \* "查"
     piao |-> <<31080>>,  \* "票"
     gongdan |-> <<24037, 21333>>,  \* "工单"
     zhuangtai |-> <<29366, 24577>>,  \* "状态"
     chongzhi |-> <<37325, 32622>>,  \* "重置"
     mima |-> <<23494, 30721>>,  \* "密码"
     zhishi |-> <<30693, 35782>>,  \* "知识"
     wenzhang |-> <<25991, 31456>>,  \* "文章"
     bangzhu |-> <<24110, 21161>>,  \* "帮助"
     zenme |-> <<24590, 20040>>,  \* "怎么"
     zhinan |-> <<25351, 21335>>,  \* "指南"
     ruhe |-> <<22914, 20309>>,  \* "如何"
     shenqing |-> <<30003, 35831>>,  \* "申请"
     ruanjian |-> <<36719, 20214>>,  \* "软件"
     anzhuang |-> <<23433, 35013>>,  \* "安装"
     chuangjian |-> <<21019, 24314>>,  \* "创建"
     tijiao |-> <<25552, 20132>>,  \* "提交"
     baogao |-> <<25253, 21578>>,  \* "报告"
     wenti |-> <<38382, 39064>>]  \* "问题"

\* the prefixes of ticket_pattern, lower-cased (re.IGNORECASE)
TicketPrefixes ==
    {<<105, 110, 99>>,  \* inc
     <<114, 101, 113>>,  \* req
     <<116, 97, 115, 107>>,  \* task
     <<114, 105, 116, 109>>}  \* ritm

\* the alternatives of kb_terms_pattern
KbTerms ==
    {<<118, 112, 110>>,  \* vpn
     <<115, 101, 114, 118, 105, 99, 101, 110, 111, 119>>,  \* servicenow
     <<112, 97, 115, 115, 119, 111, 114, 100>>,  \* password
     <<110, 101, 116, 119, 111, 114, 107>>,  \* network
     <<115, 101, 99, 117, 114, 105, 116, 121>>,  \* security
     <<115, 111, 102, 116, 119, 97, 114, 101>>,  \* software
     <<104, 97, 114, 100, 119, 97, 114, 101>>,  \* hardware
     <<101, 109, 97, 105, 108>>,  \* email
     <<111, 102, 102, 105, 99, 101>>,  \* office
     <<97, 99, 99, 101, 115, 115>>,  \* access
     <<114, 101, 115, 101, 116>>,  \* reset
     <<115, 101, 116, 117, 112>>,  \* setup
     <<105, 110, 115, 116, 97, 108, 108>>,  \* install
     <<99, 111, 110, 102, 105, 103, 117, 114, 101>>,  \* configure
     <<116, 114, 111, 117, 98, 108, 101, 115, 104, 111, 111, 116>>}  \* troubleshoot

\* the alternatives of software_pattern
SoftwareNames ==
    {<<109, 105, 99, 114, 111, 115, 111, 102, 116>>,  \* microsoft
     <<97, 100, 111, 98, 101>>,  \* adobe
     <<111, 102, 102, 105, 99, 101>>,  \* office
     <<101, 120, 99, 101, 108>>,  \* excel
     <<119, 111, 114, 100>>,  \* word
     <<112, 111, 119, 101, 114, 112, 111, 105, 110, 116>>,  \* powerpoint
     <<112, 104, 111, 116, 111, 115, 104, 111, 112>>,  \* photoshop
     <<99, 104, 114, 111, 109, 101>>,  \* chrome
     <<116, 101, 97, 109, 115>>,  \* teams
     <<122, 111, 111, 109>>,  \* zoom
     <<115, 108, 97, 99, 107>>,  \* slack
     <<111, 117, 116, 108, 111, 111, 107>>,  \* outlook
     <<119, 105, 110, 100, 111, 119, 115>>,  \* windows
     <<109, 97, 99, 32, 111, 115>>,  \* mac os
     <<105, 111, 115>>,  \* ios
     <<97, 110, 100, 114, 111, 105, 100>>,  \* android
     <<108, 105, 110, 117, 120>>}  \* linux

\* re \w on the characters modelled: ASCII letters, digits, underscore, CJK
IsWordChar(c) ==
    \/ IsDigit(c) \/ (c >= 65 /\ c <= 90) \/ (c >= 97 /\ c <= 122) \/ c = 95
    \/ IsCJK(c)

\* re \b just before position i (i = Len(t) + 1 is the end of the text)
BoundaryAt(t, i) ==
    (i > 1 /\ IsWordChar(t[i - 1])) # (i <= Len(t) /\ IsWordChar(t[i]))

\* the lower-cased word w occurs at position i, ignoring case
MatchesAt(t, i, w) ==
    /\ i + Len(w) - 1 <= Len(t)
    /\ Lower(SubSeq(t, i, i + Len(w) - 1)) = w

\* c belongs to the character class \d, \s or \w
InClass(c, class) ==
    IF class = "d" THEN IsDigit(c)
    ELSE IF class = "s" THEN IsSpace(c)
    ELSE IsWordChar(c)

\* the last position of the longest run of characters of a class that
\* starts at position i; i - 1 when there is none
RunEnd(t, i, class) ==
    LET ends == {e \in i..Len(t) : \A k \in i..e : InClass(t[k], class)}
    IN  IF ends = {} THEN i - 1
        ELSE CHOOSE e \in ends : \A f \in ends : e >= f

\* \b(?:INC|REQ|TASK|RITM)\d{5,}\b matched at position i: the last position
\* of the match, 0 when there is no match at i
TicketEndAt(t, i) ==
    IF BoundaryAt(t, i) /\ \E p \in TicketPrefixes : MatchesAt(t, i, p)
    THEN LET p == CHOOSE q \in TicketPrefixes : MatchesAt(t, i, q)
             e == RunEnd(t, i + Len(p), "d")
         IN  IF e - (i + Len(p)) + 1 >= 5 /\ BoundaryAt(t, e + 1) THEN e ELSE 0
    ELSE 0

\* ticket_pattern.finditer(text) from position i: the matches in order
RECURSIVE TicketMatchesFrom(_, _)
TicketMatchesFrom(t, i) ==
    IF i > Len(t) THEN << >>
    ELSE LET e == TicketEndAt(t, i)
         IN  IF e > 0 THEN << SubSeq(t, i, e) >> \o TicketMatchesFrom(t, e + 1)
             ELSE TicketMatchesFrom(t, i + 1)

ExtractTicketIds(text) == TicketMatchesFrom(text, 1)

\* \b(w1|w2|...)\b matched at position i
WordAt(t, i, words) ==
    /\ BoundaryAt(t, i)
    /\ \E w \in words : MatchesAt(t, i, w) /\ BoundaryAt(t, i + Len(w))

\* kb_terms_pattern.findall(text) is not empty
HasKbTerm(text) == \E i \in 1..Len(text) : WordAt(text, i, KbTerms)

\* one character of str.title(): upper case after a non-letter
IsLetter(c) == (c >= 65 /\ c <= 90) \/ (c >= 97 /\ c <= 122)
Title(s) ==
    [i \in 1..Len(s) |->
        IF i = 1 \/ ~IsLetter(s[i - 1])
        THEN (IF s[i] >= 97 /\ s[i] <= 122 THEN s[i] - 32 ELSE s[i])
        ELSE LowerChar(s[i])]

\* software_pattern.findall(text) from position i: group 1 of the matches in
\* order; a match also consumes the optional (?:\s+\w+) that follows it
RECURSIVE SoftwareMatchesFrom(_, _)
SoftwareMatchesFrom(t, i) ==
    IF i > Len(t) THEN << >>
    ELSE IF WordAt(t, i, SoftwareNames)
    THEN LET w == CHOOSE q \in SoftwareNames :
                      MatchesAt(t, i, q) /\ BoundaryAt(t, i + Len(q))
             e == i + Len(w) - 1
             s == RunEnd(t, e + 1, "s")
             f == RunEnd(t, s + 1, "w")
             last == IF s > e /\ f > s THEN f ELSE e
         IN  << SubSeq(t, i, e) >> \o SoftwareMatchesFrom(t, last + 1)
    ELSE SoftwareMatchesFrom(t, i + 1)

\* the names kept by understand_intent: strip().title(), first occurrences
RECURSIVE Dedup(_)
Dedup(names) ==
    IF names = << >> THEN << >>
    ELSE LET n == Len(names)
             front == Dedup(SubSeq(names, 1, n - 1))
         IN  IF \E k \in 1..Len(front) : front[k] = names[n] THEN front
             ELSE Append(front, names[n])

SoftwareNamesIn(text) ==
    LET found == SoftwareMatchesFrom(text, 1)
    IN  Dedup([k \in 1..Len(found) |-> Title(Strip(found[k]))])

\* the keyword tests of understand_intent
KbRelated(text) ==
    LET t == Lower(text)
    IN  \/ Contains(t, NluWords.knowledge) \/ Contains(t, NluWords.article)
        \/ Contains(t, NluWords.guide) \/ Contains(t, NluWords.howto)
        \/ Contains(text, ZhWords.zhishi) \/ Contains(text, ZhWords.wenzhang)
        \/ Contains(text, ZhWords.zhinan) \/ Contains(text, ZhWords.zenme)
        \/ Contains(text, ZhWords.ruhe)
        \/ Contains(t, NluWords.vpn)

\* the Chinese keyword rules applied while the intent is still unknown
ChineseKeywordIntent(text) ==
    IF Contains(text, ZhWords.cha) \/ Contains(text, ZhWords.piao)
       \/ Contains(text, ZhWords.gongdan) \/ Contains(text, ZhWords.zhuangtai)
    THEN "check_ticket_status"
    ELSE IF Contains(text, ZhWords.chongzhi) \/ Contains(text, ZhWords.mima)
    THEN "reset_password"
    ELSE IF Contains(text, ZhWords.zhishi) \/ Contains(text, ZhWords.wenzhang)
            \/ Contains(text, ZhWords.bangzhu) \/ Contains(text, ZhWords.zenme)
    THEN "find_kb_article"
    ELSE IF Contains(text, ZhWords.shenqing) \/ Contains(text, ZhWords.ruanjian)
            \/ Contains(text, ZhWords.anzhuang)
    THEN "request_software"
    ELSE IF Contains(text, ZhWords.chuangjian) \/ Contains(text, ZhWords.tijiao)
            \/ Contains(text, ZhWords.baogao) \/ Contains(text, ZhWords.wenti)
    THEN "create_ticket"
    ELSE "unknown"

\* what the zero-shot classifier can answer: one of the mapped labels with a
\* score at or above CONFIDENCE_THRESHOLD, or "unknown" when the score is
\* below it; "failed" when the model is not loaded or raises
ClassifierAnswers ==
    {"check_ticket_status", "reset_password", "find_kb_article", "create_ticket",
     "greeting", "general_question", "request_software", "unknown", "failed"}

\* understand_intent below the two shortcuts, for one classifier answer.
\* extract_entities is an external NER model: nerTickets says whether it
\* reports the ticket numbers itself (then they are "existing_tickets" and
\* no TICKET_NUMBER key is added); its other entities are read by no handler
\* and are left out, as is KB_TERMS
ClassifiedIntent(text, answer, nerTickets) ==
    LET tickets == ExtractTicketIds(text)
        t == Lower(text)
        i1 == IF answer = "unknown" /\ tickets # << >>
              THEN "check_ticket_status" ELSE answer
        e1 == IF tickets = << >> THEN EmptyDict
              ELSE IF nerTickets THEN [MISC |-> tickets]
              ELSE [TICKET_NUMBER |-> tickets]
        \* kb_terms is bound only when kb_matches is not empty
        kbCrash == i1 = "find_kb_article" /\ ~HasKbTerm(text)
        i2 == IF i1 = "unknown" THEN ChineseKeywordIntent(text) ELSE i1
        names == SoftwareNamesIn(text)
        e2 == IF (i2 = "request_software" \/ Contains(t, NluWords.software)
                  \/ Contains(t, NluWords.application) \/ Contains(t, NluWords.app))
                 /\ names # << >>
              THEN e1 @@ [SOFTWARE_NAME |-> names] ELSE e1
    IN  IF answer = "failed" \/ kbCrash
        THEN [intent |-> "unknown", entities |-> EmptyDict]
        ELSE [intent |-> i2, entities |-> e2]

\* understand_intent(text): the set of results it can return
understand_intent(text) ==
    LET tickets == ExtractTicketIds(text)
        t == Lower(text)
    IN  IF Len(Strip(text)) < 3
        THEN {[intent |-> "unknown", entities |-> EmptyDict]}
        ELSE IF tickets # << >>
                /\ (\/ Contains(text, ZhWords.cha) \/ Contains(t, NluWords.status)
                    \/ Contains(t, NluWords.check) \/ Contains(t, NluWords.ticket))
        THEN {[intent |-> "check_ticket_status",
               entities |-> [TICKET_NUMBER |-> tickets]]}
        ELSE IF KbRelated(text)
        THEN {[intent |-> "find_kb_article", entities |-> EmptyDict]}
        ELSE {ClassifiedIntent(text, a, n) : a \in ClassifierAnswers, n \in BOOLEAN}

\* ------------------------------------------------------------------------
\* Inputs
\* ------------------------------------------------------------------------
\* the intents of nlu_service.INTENT_MAPPING, and "unknown"
Intents ==
    {"check_ticket_status", "reset_password", "find_kb_article", "create_ticket",
     "request_software", "greeting", "general_question", "unknown"}

\* the waiting_for values of the conversation state
SlotEnum ==
    {"ticket_number", "ticket_details", "confirmation", "urgency_selection",
     "software_name", "software_confirmation", "kb_query", "employee_id"}

\* turn texts: empty, affirmative, negative, a one-letter reply, a word that
\* only contains an affirmative word, a Chinese reply, ticket ids (one of
\* them with a single digit), a long description, a software name, and two
\* texts with keywords of several issue types
SampleTexts ==
    {Txt.empty, Txt.yes, Txt.no, Txt.y, Txt.book, Txt.shi, Txt.inc, Txt.req,
     Txt.inc1, Txt.laptop, Txt.zoom, Txt.lapnet, Txt.progpc}

\* entity maps: none, each label with a value, and labels present with an
\* empty list
SampleEntities ==
    {EmptyDict,
     [TICKET_NUMBER |-> << Txt.inc >>], [TICKET_NUMBER |-> << >>],
     [LOC |-> << L_bldgA >>],
     [SOFTWARE_NAME |-> << Txt.zoom >>], [SOFTWARE_NAME |-> << >>]}

\* intent_data as process_message builds it from understand_intent
MessageIntentData(intent, text, entities) ==
    [intent |-> intent, text |-> text, entities |-> entities]

\* intent_data as the select_ticket_urgency action builds it
PickerIntentData(selected_option) ==
    [intent |-> "create_ticket", text |-> Txt.empty, selected_option |-> selected_option]

\* intent_data as handle_message builds it (no entities key)
KeywordIntentData(intent, text) == [intent |-> intent, text |-> text]

\* intent_data of the ticket-number shortcut of process_message (no text key)
ShortcutIntentData(text) == [intent |-> "check_ticket", ticket_number |-> text]

UrgencyOptions == {"1", "2", "3"}

SampleIntentData ==
    {MessageIntentData(i, t, e) : i \in Intents, t \in SampleTexts, e \in SampleEntities}
    \cup {PickerIntentData(o) : o \in UrgencyOptions \cup {""}}
    \cup {KeywordIntentData(i, t) : i \in Intents, t \in {Txt.inc, Txt.laptop}}
    \cup {ShortcutIntentData(Txt.inc)}

\* conversation states: no record (None), the empty record the transport
\* substitutes for it, every shape the engine and the transport write, and
\* a record with an unknown waiting_for
SampleStates ==
    {None, EmptyDict,
     [waiting_for |-> "ticket_number", action_type |-> "check_ticket"],
     [waiting_for |-> "confirmation", action_type |-> "password_reset"],
     [waiting_for |-> "confirmation", action_type |-> "create_ticket",
      short_description |-> IssueTypes.hardware, urgency |-> "3", location |-> Txt.empty],
     [waiting_for |-> "confirmation", intent |-> "password_reset"],
     [waiting_for |-> "urgency_selection", action_type |-> "create_ticket",
      short_description |-> IssueTypes.hardware],
     [waiting_for |-> "ticket_details", action_type |-> "create_ticket",
      short_description |-> IssueTypes.hardware, urgency |-> "1"],
     [waiting_for |-> "software_name", action_type |-> "request_software"],
     [waiting_for |-> "software_confirmation", action_type |-> "request_software",
      software_name |-> Txt.zoom],
     [waiting_for |-> "kb_query"],
     [waiting_for |-> "employee_id", action_type |-> "password_reset"],
     [waiting_for |-> "employee_id", intent |-> "password_reset"],
     [waiting_for |-> "none"],
     [waiting_for |-> "bogus"]}

\* ------------------------------------------------------------------------
\* Inputs of the transport
\* ------------------------------------------------------------------------
User1 == <<85, 49>>  \* "U1"
User2 == <<85, 50>>  \* "U2"
Chan1 == <<67, 49>>  \* "C1"
Chan2 == <<68, 50>>  \* "D2"
TS1 == <<49>>  \* "1"

\* (user_id, channel_id) of the conversations: two users in the public
\* channel Chan1, and one of them in the direct-message channel Chan2
Conversations == {<< User1, Chan1 >>, << User2, Chan1 >>, << User2, Chan2 >>}

Timestamps == {TS1}

\* message texts: a one-letter reply, a password-reset request and a
\* free-text problem report
MessageTexts == {Txt.y, Txt.reset, Txt.laptop}

\* a message or app_mention event; thread_ts is absent (a top-level
\* message).  The first conversation sends every text, the others one.
Events ==
    {[user |-> User1, channel |-> Chan1, ts |-> ts, text |-> t] :
        ts \in Timestamps, t \in MessageTexts}
    \cup {[user |-> cv[1], channel |-> cv[2], ts |-> ts, text |-> Txt.reset] :
        cv \in Conversations, ts \in Timestamps}

\* Slack's channel_type of a channel
ChannelType(channel_id) == IF channel_id = Chan2 THEN "im" ELSE "channel"

\* the events Slack sends as app_mention: messages in a channel that is not
\* a direct-message channel
Mentions == {ev \in Events : ChannelType(ev.channel) # "im"}

\* texts of a single turn: affirmative, negative, a ticket id, and a text
\* that contains "password" and "reset"
TurnMessageTexts == {Txt.yes, Txt.no, Txt.inc, Txt.reset}

\* the turn as an app_mention event of the first conversation
TurnEvents ==
    {[user |-> User1, channel |-> Chan1, ts |-> TS1, text |-> t] :
        t \in TurnMessageTexts}

\* the records process_and_respond leaves behind: none, and each state a
\* turn of the transport can save
PersistedStates ==
    {None,
     [waiting_for |-> "ticket_number", action_type |-> "check_ticket"],
     [waiting_for |-> "confirmation", action_type |-> "password_reset"],
     [waiting_for |-> "confirmation", action_type |-> "create_ticket",
      short_description |-> IssueTypes.hardware, urgency |-> "3", location |-> Txt.empty],
     [waiting_for |-> "confirmation", intent |-> "password_reset"],
     [waiting_for |-> "software_name", action_type |-> "request_software"],
     [waiting_for |-> "software_confirmation", action_type |-> "request_software",
      software_name |-> Txt.zoom],
     [waiting_for |-> "kb_query"],
     [waiting_for |-> "employee_id", intent |-> "password_reset"]}

\* ------------------------------------------------------------------------
\* state_service.py
\* ------------------------------------------------------------------------
S_state == <<115, 116, 97, 116, 101, 58>>  \* "state:"
S_colon == <<58>>  \* ":"

\* variant whose key leaves out the channel
_generate_key_m(user_id, channel_id) == S_state \o user_id

\* _generate_key: f"state:{user_id}:{channel_id}"
_generate_key(user_id, channel_id) == S_state \o user_id \o S_colon \o channel_id

\* The Redis state records, as a function from key to the stored dict, None
\* where the key does not exist.  The client is connected and its commands
\* succeed.
\* get_state: the stored dict, None when the key does not exist
get_state(records, user_id, channel_id) == records[_generate_key(user_id, channel_id)]

\* json.dumps of a state dict: a JSON object, each member name with the
\* JSON string of its value (state dicts have str keys and str values)
json_dumps(state_data) ==
    [name \in DOMAIN state_data |-> [json |-> "string", chars |-> state_data[name]]]

\* json.loads of a JSON object of strings
json_loads(state_json) ==
    [name \in DOMAIN state_json |-> state_json[name].chars]

\* variant that merges the new dict into the record already stored
save_state_m(records, user_id, channel_id, state_data) ==
    LET key == _generate_key(user_id, channel_id)
        old == IF records[key] = None THEN EmptyDict ELSE records[key]
    IN  [records EXCEPT ![key] =
             [name \in DOMAIN old \cup DOMAIN state_data |->
                 IF name \in DOMAIN state_data THEN state_data[name] ELSE old[name]]]

\* save_state: SET key json ex=ttl_seconds; the record is kept as the dict
\* json.loads gives back for the stored text
save_state(records, user_id, channel_id, state_data) ==
    [records EXCEPT ![_generate_key(user_id, channel_id)] =
         json_loads(json_dumps(state_data))]

\* save_state, get_state, delete_state: "if not user_id or not channel_id"
HasIds(user_id, channel_id) == user_id # << >> /\ channel_id # << >>

\* variant that leaves the record where it is
delete_state_m(records, user_id, channel_id) == records

\* delete_state: DEL key (succeeds whether or not the key exists)
delete_state(records, user_id, channel_id) ==
    [records EXCEPT ![_generate_key(user_id, channel_id)] = None]

\* the default ttl_seconds of save_state, which every caller in
\* slack_service.py also passes
TtlSeconds == 900

\* save_state: the expiry SET ... ex=ttl_seconds gives the key
save_state_ttl(ttls, user_id, channel_id, ttl_seconds) ==
    [ttls EXCEPT ![_generate_key(user_id, channel_id)] = ttl_seconds]

\* delete_state: a key that does not exist has no expiry
delete_state_ttl(ttls, user_id, channel_id) ==
    [ttls EXCEPT ![_generate_key(user_id, channel_id)] = 0]

\* ------------------------------------------------------------------------
\* software_service.py
\* ------------------------------------------------------------------------
\* submit_software_request: the call itself and the one
\* create_servicenow_ticket call it makes; an exception is answered with a
\* simulated success
submit_software_request(user_id, software_name, env) ==
    LET calls == << ClientCall("submit_software_request",
                               << user_id, software_name >>),
                    ClientCall("create_servicenow_ticket",
                               << software_name, user_id >>) >>
    IN  IF env = "raise"
        THEN Ret([status |-> "success", software_name |-> software_name,
                  simulated |-> TRUE], calls)
        ELSE IF env = "error"
        THEN Ret([status |-> "error"], calls)
        ELSE Ret([status |-> "success", software_name |-> software_name], calls)

\* ------------------------------------------------------------------------
\* slack_service.py: the response of one turn
\* ------------------------------------------------------------------------
\* the replies the confirmation shortcut of process_and_respond accepts
ConfirmTokens ==
    {<<121, 101, 115>>,  \* "yes"
     <<121>>,  \* "y"
     <<26159>>,  \* "是"
     <<30830, 35748>>}  \* "确认"

\* message_id of process_and_respond: f"{channel_id}:{message_ts}:{message_text}"
MessageId(channel_id, message_ts, message_text) ==
    channel_id \o S_colon \o message_ts \o S_colon \o message_text

\* process_message(message_text, user_id, current_state), nlu being what
\* understand_intent returned.  get_next_action does not raise, so the
\* except branch is not taken.
process_message(message_text, current_state, nlu, env) ==
    IF TruthyDict(current_state)
       /\ Get(current_state, "waiting_for", NoneStr) = "ticket_number"
       /\ Contains(message_text, S_INC)
    THEN get_next_action(ShortcutIntentData(message_text), current_state, env)
    ELSE get_next_action(MessageIntentData(nlu.intent, message_text, nlu.entities),
                         current_state, env)

\* the turn is answered by process_message (lines 91-103), not by one of the
\* three fixed replies of process_and_respond
UsesEngine(message_text, current_state) ==
    /\ Get(current_state, "waiting_for", NoneStr) \notin {"confirmation", "employee_id"}
    /\ ~ (Contains(Lower(message_text), ResetWords.password)
          /\ Contains(Lower(message_text), ResetWords.reset))

\* variant whose confirmation shortcut keeps the state when the reply is
\* not one of its tokens
TurnResponse_m(message_text, current_state, nlu, env) ==
    IF Get(current_state, "waiting_for", NoneStr) = "confirmation"
    THEN IF Lower(message_text) \in ConfirmTokens
         THEN Ret([response |-> Response("reset_ask_employee_id", "zh", << >>),
                   next_state |-> [intent |-> "password_reset",
                                   waiting_for |-> "employee_id"]], << >>)
         ELSE Ret([response |-> Response("reset_cancelled", "zh", << >>),
                   next_state |-> current_state], << >>)
    ELSE IF Get(current_state, "waiting_for", NoneStr) = "employee_id"
    THEN Ret([response |-> Response("reset_received_employee_id", "zh", << >>),
              next_state |-> None], << >>)
    ELSE IF ~ UsesEngine(message_text, current_state)
    THEN Ret([response |-> Response("reset_confirm", "zh", << >>),
              next_state |-> [intent |-> "password_reset",
                              waiting_for |-> "confirmation"]], << >>)
    ELSE process_message(message_text, current_state, nlu, env)

\* lines 70-103 of process_and_respond
TurnResponse(message_text, current_state, nlu, env) ==
    IF Get(current_state, "waiting_for", NoneStr) = "confirmation"
    THEN IF Lower(message_text) \in ConfirmTokens
         THEN Ret([response |-> Response("reset_ask_employee_id", "zh", << >>),
                   next_state |-> [intent |-> "password_reset",
                                   waiting_for |-> "employee_id"]], << >>)
         ELSE Ret([response |-> Response("reset_cancelled", "zh", << >>),
                   next_state |-> None], << >>)
    ELSE IF Get(current_state, "waiting_for", NoneStr) = "employee_id"
    THEN Ret([response |-> Response("reset_received_employee_id", "zh", << >>),
              next_state |-> None], << >>)
    ELSE IF ~ UsesEngine(message_text, current_state)
    THEN Ret([response |-> Response("reset_confirm", "zh", << >>),
              next_state |-> [intent |-> "password_reset",
                              waiting_for |-> "confirmation"]], << >>)
    ELSE process_message(message_text, current_state, nlu, env)

\* lines 70-130 of process_and_respond: the response, after the software
\* request it may ask for has been submitted
FinalResponse(message_text, user_id, current_state, nlu, env) ==
    LET out == TurnResponse(message_text, current_state, nlu, env)
        response == out.value
    IN  IF Get(response, "action", NoneStr) = "execute_software_request"
        THEN LET software_name ==
                     Get(Get(response, "details", EmptyDict), "software_name", D_unknownsw)
                 sub == submit_software_request(user_id, software_name, env)
                 text == IF sub.value.status = "success"
                         THEN Response("software_request_submitted", "en",
                                       << software_name >>)
                         ELSE Response("software_request_failed", "en", << >>)
             IN  Ret([response EXCEPT !["response"] = text, !["next_state"] = None],
                     out.calls \o sub.calls)
        ELSE out

\* ------------------------------------------------------------------------
\* State
\* ------------------------------------------------------------------------
VARIABLES
    parg,    \* the arguments of one get_next_action call
    pout,    \* its outcome, NotYet before the call
    estate,  \* conversation state handed to the engine at the next turn
    elast,   \* the last engine turn: arguments, result, client calls
    etrail,  \* waiting_for of the state each turn of the current flow met
    ewell,   \* no turn of the current flow was a re-prompt or a decline
    store,               \* Redis: state key -> stored dict, or None
    ttl,                 \* Redis: state key -> seconds left before the key expires
    slast,               \* the last state_service call of a direct caller
    convlog,             \* Redis: conversation -> types of the messages logged
    processed_messages,  \* slack_service.processed_messages
    active_threads,      \* slack_service.active_threads
    wk,                  \* the process_and_respond call each listener thread runs
    us,                  \* the select_ticket_urgency call in progress
    hist,                \* per turn identity: what has been done for it so far
    lastw,               \* per conversation: what its turns and actions last wrote
    delivered,           \* events delivered so far
    acted                \* interactive actions received so far

vars_pure == << parg, pout >>
vars_engine == << estate, elast, etrail, ewell >>
vars_transport == << store, ttl, slast, convlog, processed_messages, active_threads, wk, us,
                     hist, lastw, delivered, acted >>
vars == << parg, pout, estate, elast, etrail, ewell, store, ttl, slast, convlog,
           processed_messages, active_threads, wk, us, hist, lastw, delivered, acted >>

NotYet == [kind |-> "none"]
NoCall == [kind |-> "none"]

\* turns one conversation may take before the model stops extending it
MaxTurns == 5

PureIdle == parg = [intent_data |-> KeywordIntentData("unknown", Txt.empty),
                    current_state |-> EmptyDict, env |-> "ok"]
            /\ pout = NotYet

EngineIdle == estate = EmptyDict /\ elast = NoCall /\ etrail = << >> /\ ewell = TRUE

\* listener threads running process_and_respond at the same time
NumWorkers == 2
Workers == 1..NumWorkers

\* events delivered, and interactive actions received, in one run
MaxDeliveries == 2
MaxActions == 1

Keys == {_generate_key(cv[1], cv[2]) : cv \in Conversations}

IdleWorker == [pc |-> "idle"]
IdlePicker == [pc |-> "idle"]
ZeroHist == [engine |-> 0, reply |-> 0, write |-> 0,
             marked |-> FALSE, skipped |-> FALSE, returned |-> FALSE]

\* the service after start-up: no record, nothing processed, no thread
TransportIdle ==
    /\ store = [k \in Keys |-> None]
    /\ ttl = [k \in Keys |-> 0]
    /\ slast = NoCall
    /\ convlog = [cv \in Conversations |-> {}]
    /\ processed_messages = {}
    /\ active_threads = EmptyDict
    /\ wk = [w \in Workers |-> IdleWorker]
    /\ us = IdlePicker
    /\ hist = EmptyDict
    /\ lastw = [cv \in Conversations |-> None]
    /\ delivered = 0
    /\ acted = 0

\* ------------------------------------------------------------------------
\* get_next_action as a function: one call on arbitrary arguments
\* ------------------------------------------------------------------------
InitPure ==
    /\ parg \in [intent_data : SampleIntentData, current_state : SampleStates,
                 env : ClientOutcomes]
    /\ pout = NotYet
    /\ EngineIdle
    /\ TransportIdle

CallNextAction ==
    /\ pout = NotYet
    /\ pout' = get_next_action(parg.intent_data, parg.current_state, parg.env)
    /\ UNCHANGED << parg, vars_engine, vars_transport >>

NextPure == CallNextAction

SpecPure == InitPure /\ [][NextPure]_vars

\* The same call made a second time: same intent_data, same state, and
\* downstream clients answering as they did the first time
\* variant in which the first call has updated the caller's state dict in
\* place, so that the second call meets the state the first one returned
CallAgain_m ==
    /\ pout # NotYet
    /\ elast = NoCall
    /\ \E out \in {get_next_action(parg.intent_data, pout.value["next_state"],
                                   parg.env)} :
           elast' = [intent_data |-> parg.intent_data,
                     current_state |-> parg.current_state,
                     result |-> out.value, calls |-> out.calls]
    /\ UNCHANGED << vars_pure, estate, etrail, ewell, vars_transport >>

CallAgain ==
    /\ pout # NotYet
    /\ elast = NoCall
    /\ \E out \in {get_next_action(parg.intent_data, parg.current_state, parg.env)} :
           elast' = [intent_data |-> parg.intent_data,
                     current_state |-> parg.current_state,
                     result |-> out.value, calls |-> out.calls]
    /\ UNCHANGED << vars_pure, estate, etrail, ewell, vars_transport >>

NextRepeat == CallNextAction \/ CallAgain

SpecRepeat == InitPure /\ [][NextRepeat]_vars

\* ------------------------------------------------------------------------
\* One conversation driven through get_next_action turn by turn; the
\* caller keeps next_state and hands it back, an absent record being the
\* empty dict (get_state(...) or {})
\* ------------------------------------------------------------------------
\* turn texts: affirmative and short, one letter, long, a ticket id
TurnTexts == {Txt.yes, Txt.y, Txt.laptop, Txt.inc}

\* the resolver found no entity, or one of each label
TurnEntities ==
    {EmptyDict,
     [TICKET_NUMBER |-> << Txt.inc >>, LOC |-> << L_bldgA >>,
      SOFTWARE_NAME |-> << Txt.zoom >>]}

\* greeting stands for the three intents that end the turn at once
TurnIntents == Intents \ {"general_question", "unknown"}

TurnIntentData ==
    {MessageIntentData(i, t, e) : i \in TurnIntents, t \in TurnTexts, e \in TurnEntities}
    \cup {PickerIntentData(o) : o \in UrgencyOptions}

\* a turn that is neither a re-prompt, nor a declined software confirmation,
\* nor an internal error
WellFormedTurn(current_state, result) ==
    /\ "action" \in DOMAIN result
    /\ result["action"] # "ask_again"
    /\ ~ (Get(current_state, "waiting_for", NoneStr) = "software_confirmation"
          /\ result["action"] = "ask_software_name")

InitEngine == PureIdle /\ EngineIdle /\ TransportIdle

EngineTurn(intent_data, env) ==
    \E out \in {get_next_action(intent_data, estate, env)} :
        LET result == out.value
            fresh == estate = EmptyDict
            trail == IF fresh THEN << >> ELSE etrail
        IN  /\ Len(trail) < MaxTurns
            /\ env = "ok" \/ out.calls # << >>
            /\ elast' = [intent_data |-> intent_data, current_state |-> estate,
                         result |-> result, calls |-> out.calls]
            /\ estate' = IF result["next_state"] = None THEN EmptyDict
                         ELSE result["next_state"]
            /\ etrail' = Append(trail, Get(estate, "waiting_for", NoneStr))
            /\ ewell' = ((fresh \/ ewell) /\ WellFormedTurn(estate, result))
            /\ UNCHANGED << vars_pure, vars_transport >>

NextEngine == \E intent_data \in TurnIntentData, env \in ClientOutcomes :
                  EngineTurn(intent_data, env)

SpecEngine == InitEngine /\ [][NextEngine]_vars

\* ------------------------------------------------------------------------
\* The Slack transport: events and interactive actions handled by listener
\* threads that share the Redis records and the module-level collections
\* ------------------------------------------------------------------------
Hist(e) == IF e \in DOMAIN hist THEN hist[e] ELSE ZeroHist

\* hist with the counters of e replaced by h
HistWith(e, h) == [x \in DOMAIN hist \cup {e} |-> IF x = e THEN h ELSE hist[x]]

\* current_state = get_state(user_id, channel_id) or {}
StateOrEmpty(records, user_id, channel_id) ==
    LET state == get_state(records, user_id, channel_id)
    IN  IF TruthyDict(state) THEN state ELSE EmptyDict

\* the pool hands a call to the first free listener thread
FreeWorker(w) ==
    /\ wk[w].pc = "idle"
    /\ \A v \in Workers : v < w => wk[v].pc # "idle"

\* variant without the duplicate test
AlreadyProcessed_m(message_id) == FALSE

\* line 49: message_id in processed_messages
AlreadyProcessed(message_id) == message_id \in processed_messages

\* process_and_respond, lines 45-51: the message was processed before
PR_Skip(ev) ==
    /\ delivered < MaxDeliveries
    /\ AlreadyProcessed(MessageId(ev.channel, ev.ts, ev.text))
    /\ delivered' = delivered + 1
    /\ hist' = HistWith(ev, [Hist(ev) EXCEPT !.skipped = TRUE, !.returned = TRUE])
    /\ UNCHANGED << vars_pure, vars_engine, slast, store, ttl, convlog, processed_messages,
                    active_threads, wk, us,
                    lastw, acted >>

\* process_and_respond, lines 45-64: the message is new; log it
PR_Enter(w, ev) ==
    /\ delivered < MaxDeliveries
    /\ FreeWorker(w)
    /\ ~ AlreadyProcessed(MessageId(ev.channel, ev.ts, ev.text))
    /\ delivered' = delivered + 1
    /\ convlog' = [convlog EXCEPT ![<< ev.user, ev.channel >>] = @ \cup {"user_message"}]
    /\ wk' = [wk EXCEPT ![w] = [pc |-> "turn", ev |-> ev]]
    /\ UNCHANGED << vars_pure, vars_engine, slast, store, ttl, processed_messages,
                    active_threads, us, hist, lastw, acted >>

\* process_and_respond(message_text, user_id, channel_id, None, message_ts)
process_and_respond(ev) == PR_Skip(ev) \/ \E w \in Workers : PR_Enter(w, ev)

\* @slack_app.event("app_mention")
handle_app_mention(ev) ==
    process_and_respond([ev EXCEPT !.text = Strip(ev.text)])

\* @slack_app.event("message"): answered in a direct message, or when the
\* message belongs to an active thread
handle_message(ev) ==
    LET channel_type == ChannelType(ev.channel)
        should_respond == channel_type = "im" \/ ev.ts \in DOMAIN active_threads
    IN  IF should_respond
        THEN process_and_respond([ev EXCEPT !.text = Strip(ev.text)])
        ELSE UNCHANGED vars

\* variant that waits while another thread of the same conversation is
\* between its get_state and its state write
PR_Turn_m(w, nlu, env) ==
    /\ wk[w].pc = "turn"
    /\ \A v \in Workers \ {w} :
           wk[v].pc = "write"
           => << wk[v].ev.user, wk[v].ev.channel >>
                  # << wk[w].ev.user, wk[w].ev.channel >>
    /\ LET ev == wk[w].ev
           current_state == StateOrEmpty(store, ev.user, ev.channel)
       IN  \E out \in {FinalResponse(ev.text, ev.user, current_state, nlu, env)} :
               /\ env = "ok" \/ out.calls # << >>
               /\ wk' = [wk EXCEPT ![w] = [pc |-> "write", ev |-> ev,
                                            snap |-> current_state,
                                            action |-> Get(out.value, "action", NoneStr),
                                            calls |-> out.calls,
                                            next_state |-> out.value["next_state"]]]
               /\ hist' = HistWith(ev, [Hist(ev) EXCEPT
                              !.engine = @ + (IF UsesEngine(ev.text, current_state)
                                              THEN 1 ELSE 0),
                              !.reply = @ + 1])
               /\ convlog' = [convlog EXCEPT ![<< ev.user, ev.channel >>] =
                                                 @ \cup {"bot_message"}]
    /\ UNCHANGED << vars_pure, vars_engine, slast, store, ttl, processed_messages,
                    active_threads, us, lastw,
                    delivered, acted >>

\* process_and_respond, lines 66-356: read the state, compute the response,
\* post it and log it
PR_Turn(w, nlu, env) ==
    /\ wk[w].pc = "turn"
    /\ LET ev == wk[w].ev
           current_state == StateOrEmpty(store, ev.user, ev.channel)
       IN  \E out \in {FinalResponse(ev.text, ev.user, current_state, nlu, env)} :
               /\ env = "ok" \/ out.calls # << >>
               /\ wk' = [wk EXCEPT ![w] = [pc |-> "write", ev |-> ev,
                                            snap |-> current_state,
                                            action |-> Get(out.value, "action", NoneStr),
                                            calls |-> out.calls,
                                            next_state |-> out.value["next_state"]]]
               /\ hist' = HistWith(ev, [Hist(ev) EXCEPT
                              !.engine = @ + (IF UsesEngine(ev.text, current_state)
                                              THEN 1 ELSE 0),
                              !.reply = @ + 1])
               /\ convlog' = [convlog EXCEPT ![<< ev.user, ev.channel >>] =
                                                 @ \cup {"bot_message"}]
    /\ UNCHANGED << vars_pure, vars_engine, slast, store, ttl, processed_messages,
                    active_threads, us, lastw,
                    delivered, acted >>

\* variant whose failing turn clears the record and records the message as
\* processed before the error reply
PR_TurnFails_m(w) ==
    /\ wk[w].pc = "turn"
    /\ LET ev == wk[w].ev
           current_state == StateOrEmpty(store, ev.user, ev.channel)
       IN  /\ hist' = HistWith(ev, [Hist(ev) EXCEPT
                          !.engine = @ + (IF UsesEngine(ev.text, current_state)
                                          THEN 1 ELSE 0),
                          !.returned = TRUE])
           /\ convlog' = [convlog EXCEPT ![<< ev.user, ev.channel >>] =
                                             @ \cup {"error_message"}]
           /\ store' = delete_state(store, ev.user, ev.channel)
           /\ ttl' = delete_state_ttl(ttl, ev.user, ev.channel)
           /\ processed_messages' =
                  processed_messages \cup {MessageId(ev.channel, ev.ts, ev.text)}
    /\ wk' = [wk EXCEPT ![w] = IdleWorker]
    /\ UNCHANGED << vars_pure, vars_engine, slast, active_threads,
                    us, lastw, delivered, acted >>

\* process_and_respond, lines 66-343 and 380-400: chat_postMessage raises
\* after the response was computed; the error reply is posted and logged,
\* no state is written and the message is not recorded as processed
PR_TurnFails(w) ==
    /\ wk[w].pc = "turn"
    /\ LET ev == wk[w].ev
           current_state == StateOrEmpty(store, ev.user, ev.channel)
       IN  /\ hist' = HistWith(ev, [Hist(ev) EXCEPT
                          !.engine = @ + (IF UsesEngine(ev.text, current_state)
                                          THEN 1 ELSE 0),
                          !.returned = TRUE])
           /\ convlog' = [convlog EXCEPT ![<< ev.user, ev.channel >>] =
                                             @ \cup {"error_message"}]
    /\ wk' = [wk EXCEPT ![w] = IdleWorker]
    /\ UNCHANGED << vars_pure, vars_engine, slast, store, ttl, processed_messages,
                    active_threads,
                    us, lastw, delivered, acted >>

\* variant that leaves the expiry running when the state to save equals the
\* record already stored
PR_WriteState_m(w) ==
    /\ wk[w].pc = "write"
    /\ LET ev == wk[w].ev
           next_state == wk[w].next_state
       IN  /\ store' = IF next_state # None
                       THEN save_state(store, ev.user, ev.channel, next_state)
                       ELSE delete_state(store, ev.user, ev.channel)
           /\ ttl' = IF next_state # None
                     THEN IF store' = store
                          THEN ttl
                          ELSE save_state_ttl(ttl, ev.user, ev.channel, TtlSeconds)
                     ELSE delete_state_ttl(ttl, ev.user, ev.channel)
           /\ lastw' = [lastw EXCEPT ![<< ev.user, ev.channel >>] = next_state]
           /\ hist' = HistWith(ev, [Hist(ev) EXCEPT !.write = @ + 1])
    /\ wk' = [wk EXCEPT ![w].pc = "mark"]
    /\ UNCHANGED << vars_pure, vars_engine, slast, convlog, processed_messages,
                    active_threads, us, delivered, acted >>

\* process_and_respond, lines 358-366: save next_state, or delete the record
PR_WriteState(w) ==
    /\ wk[w].pc = "write"
    /\ LET ev == wk[w].ev
           next_state == wk[w].next_state
       IN  /\ store' = IF next_state # None
                       THEN save_state(store, ev.user, ev.channel, next_state)
                       ELSE delete_state(store, ev.user, ev.channel)
           /\ ttl' = IF next_state # None
                     THEN save_state_ttl(ttl, ev.user, ev.channel, TtlSeconds)
                     ELSE delete_state_ttl(ttl, ev.user, ev.channel)
           /\ lastw' = [lastw EXCEPT ![<< ev.user, ev.channel >>] = next_state]
           /\ hist' = HistWith(ev, [Hist(ev) EXCEPT !.write = @ + 1])
    /\ wk' = [wk EXCEPT ![w].pc = "mark"]
    /\ UNCHANGED << vars_pure, vars_engine, slast, convlog, processed_messages,
                    active_threads, us, delivered, acted >>

\* process_and_respond, lines 368-378: record the message as processed and
\* the thread as active, and return
PR_Mark(w) ==
    /\ wk[w].pc = "mark"
    /\ LET ev == wk[w].ev
       IN  /\ processed_messages' =
                  processed_messages \cup {MessageId(ev.channel, ev.ts, ev.text)}
           /\ active_threads' =
                  [t \in DOMAIN active_threads \cup {ev.ts} |->
                      IF t = ev.ts
                      THEN [channel |-> ev.channel, user |-> ev.user,
                            last_message |-> ev.text]
                      ELSE active_threads[t]]
           /\ hist' = HistWith(ev, [Hist(ev) EXCEPT !.marked = TRUE,
                                                    !.returned = TRUE])
    /\ wk' = [wk EXCEPT ![w] = IdleWorker]
    /\ UNCHANGED << vars_pure, vars_engine, slast, store, ttl, convlog, us, lastw,
                    delivered, acted >>

\* select_ticket_urgency, lines 404-455: read the state, ask the engine,
\* update the picker message and post the follow-up
US_Begin(cv, selected_option, env) ==
    /\ acted < MaxActions
    /\ us.pc = "idle"
    /\ LET current_state == StateOrEmpty(store, cv[1], cv[2])
       IN  \E out \in {get_next_action(PickerIntentData(selected_option),
                                       current_state, env)} :
               /\ env = "ok" \/ out.calls # << >>
               /\ us' = [pc |-> "update", user |-> cv[1], channel |-> cv[2],
                         snap |-> current_state,
                         next_state |-> out.value["next_state"]]
    /\ acted' = acted + 1
    /\ UNCHANGED << vars_pure, vars_engine, slast, store, ttl, convlog, processed_messages,
                    active_threads, wk,
                    hist, lastw, delivered >>

\* select_ticket_urgency, lines 420-455 and 462-468: a Slack call raises;
\* the error message is posted and nothing is written
US_BeginFails(cv) ==
    /\ acted < MaxActions
    /\ us.pc = "idle"
    /\ acted' = acted + 1
    /\ UNCHANGED << vars_pure, vars_engine, slast, store, ttl, convlog, processed_messages,
                    active_threads, wk, us,
                    hist, lastw, delivered >>

\* select_ticket_urgency, lines 457-460: save next_state when there is one
US_Update ==
    /\ us.pc = "update"
    /\ IF us.next_state # None
       THEN /\ store' = save_state(store, us.user, us.channel, us.next_state)
            /\ ttl' = save_state_ttl(ttl, us.user, us.channel, TtlSeconds)
            /\ lastw' = [lastw EXCEPT ![<< us.user, us.channel >>] = us.next_state]
            /\ us' = [us EXCEPT !.pc = "delete"]
       ELSE /\ us' = IdlePicker
            /\ UNCHANGED << store, ttl, lastw >>
    /\ UNCHANGED << vars_pure, vars_engine, slast, convlog, processed_messages,
                    active_threads, wk, hist,
                    delivered, acted >>

\* select_ticket_urgency, line 461: delete the record just saved
US_Delete ==
    /\ us.pc = "delete"
    /\ store' = delete_state(store, us.user, us.channel)
    /\ ttl' = delete_state_ttl(ttl, us.user, us.channel)
    /\ lastw' = [lastw EXCEPT ![<< us.user, us.channel >>] = None]
    /\ us' = IdlePicker
    /\ UNCHANGED << vars_pure, vars_engine, slast, convlog, processed_messages,
                    active_threads, wk, hist,
                    delivered, acted >>

\* variant that saves the state without its waiting_for field
handle_password_reset_yes_m(cv) ==
    /\ acted < MaxActions
    /\ LET new_state == [intent |-> "password_reset"]
       IN  /\ store' = save_state(store, cv[1], cv[2], new_state)
           /\ ttl' = save_state_ttl(ttl, cv[1], cv[2], TtlSeconds)
           /\ lastw' = [lastw EXCEPT ![cv] = new_state]
    /\ acted' = acted + 1
    /\ UNCHANGED << vars_pure, vars_engine, slast, convlog, processed_messages,
                    active_threads, wk, us, hist,
                    delivered >>

\* confirm_password_reset_yes: the state becomes "waiting for employee id"
handle_password_reset_yes(cv) ==
    /\ acted < MaxActions
    /\ LET new_state == [intent |-> "password_reset", waiting_for |-> "employee_id"]
       IN  /\ store' = save_state(store, cv[1], cv[2], new_state)
           /\ ttl' = save_state_ttl(ttl, cv[1], cv[2], TtlSeconds)
           /\ lastw' = [lastw EXCEPT ![cv] = new_state]
    /\ acted' = acted + 1
    /\ UNCHANGED << vars_pure, vars_engine, slast, convlog, processed_messages,
                    active_threads, wk, us, hist,
                    delivered >>

\* confirm_password_reset_no: the record is deleted
handle_password_reset_no(cv) ==
    /\ acted < MaxActions
    /\ store' = delete_state(store, cv[1], cv[2])
    /\ ttl' = delete_state_ttl(ttl, cv[1], cv[2])
    /\ lastw' = [lastw EXCEPT ![cv] = None]
    /\ acted' = acted + 1
    /\ UNCHANGED << vars_pure, vars_engine, slast, convlog, processed_messages,
                    active_threads, wk, us, hist,
                    delivered >>

Init == PureIdle /\ EngineIdle /\ TransportIdle

\* what understand_intent can return for each message text
NluTable == [t \in MessageTexts \cup TurnMessageTexts |-> understand_intent(t)]

\* understand_intent on the text of the turn the thread holds
NluResults(w) == IF wk[w].pc = "turn" THEN NluTable[wk[w].ev.text] ELSE {}

Next ==
    \/ \E ev \in Mentions : handle_app_mention(ev)
    \/ \E ev \in Events : handle_message(ev)
    \/ \E w \in Workers, env \in ClientOutcomes : \E nlu \in NluResults(w) :
           PR_Turn(w, nlu, env)
    \/ \E w \in Workers : PR_TurnFails(w)
    \/ \E w \in Workers : PR_WriteState(w)
    \/ \E w \in Workers : PR_Mark(w)
    \/ \E cv \in Conversations, o \in UrgencyOptions, env \in ClientOutcomes :
           US_Begin(cv, o, env)
    \/ \E cv \in Conversations : US_BeginFails(cv)
    \/ US_Update
    \/ US_Delete
    \/ \E cv \in Conversations : handle_password_reset_yes(cv)
    \/ \E cv \in Conversations : handle_password_reset_no(cv)

Spec == Init /\ [][Next]_vars

\* ------------------------------------------------------------------------
\* One conversation met in the middle of a flow: the service has just
\* started (nothing processed, no thread) while Redis still holds the
\* record earlier turns of the first conversation saved
\* ------------------------------------------------------------------------
InitTurn ==
    /\ PureIdle
    /\ EngineIdle
    /\ \E state \in PersistedStates :
           /\ store = [k \in Keys |-> IF k = _generate_key(User1, Chan1)
                                      THEN state ELSE None]
           /\ ttl = [k \in Keys |-> IF store[k] # None THEN TtlSeconds ELSE 0]
    /\ slast = NoCall
    /\ convlog = [cv \in Conversations |-> {}]
    /\ processed_messages = {}
    /\ active_threads = EmptyDict
    /\ wk = [w \in Workers |-> IdleWorker]
    /\ us = IdlePicker
    /\ hist = EmptyDict
    /\ lastw = [cv \in Conversations |-> None]
    /\ delivered = 0
    /\ acted = 0

NextTurn ==
    \/ \E ev \in TurnEvents : handle_app_mention(ev)
    \/ \E w \in Workers, env \in ClientOutcomes : \E nlu \in NluResults(w) :
           PR_Turn(w, nlu, env)
    \/ \E w \in Workers : PR_TurnFails(w)
    \/ \E w \in Workers : PR_WriteState(w)
    \/ \E w \in Workers : PR_Mark(w)

SpecTurn == InitTurn /\ [][NextTurn]_vars

\* ------------------------------------------------------------------------
\* state_service.py called directly, as test_state_service.py does, while
\* time passes
\* ------------------------------------------------------------------------
\* the (user_id, channel_id) a caller passes: the conversations, and pairs
\* with an empty id
StoreCallers == Conversations \cup {<< Txt.empty, Chan1 >>, << User1, Txt.empty >>}

\* the dicts a caller saves: records of two flows and the empty dict
StoreStates ==
    {[waiting_for |-> "software_confirmation", action_type |-> "request_software",
      software_name |-> Txt.zoom],
     [waiting_for |-> "kb_query"],
     EmptyDict}

\* the Redis backend as a call meets it: answering; redis_client is None
\* (the connection failed at start-up); or the command raises RedisError
Backends == {"ok", "no_client", "error"}

\* a call gets past its guards and its Redis command succeeds
Served(user_id, channel_id, backend) == backend = "ok" /\ HasIds(user_id, channel_id)

\* variant whose SET reaches Redis before the command reports its error
SS_Save_m(cv, state_data, backend) ==
    /\ slast' = [kind |-> "return", op |-> "save_state", user |-> cv[1],
                 channel |-> cv[2], state |-> state_data, backend |-> backend,
                 result |-> Served(cv[1], cv[2], backend)]
    /\ IF HasIds(cv[1], cv[2]) /\ backend # "no_client"
       THEN /\ store' = save_state(store, cv[1], cv[2], state_data)
            /\ ttl' = save_state_ttl(ttl, cv[1], cv[2], TtlSeconds)
            /\ lastw' = [lastw EXCEPT ![cv] = state_data]
       ELSE UNCHANGED << store, ttl, lastw >>
    /\ UNCHANGED << vars_pure, vars_engine, convlog, processed_messages,
                    active_threads, wk, us, hist, delivered, acted >>

\* save_state(user_id, channel_id, state_data) and what it returns: every
\* exception is caught and answered with False
SS_Save(cv, state_data, backend) ==
    /\ slast' = [kind |-> "return", op |-> "save_state", user |-> cv[1],
                 channel |-> cv[2], state |-> state_data, backend |-> backend,
                 result |-> Served(cv[1], cv[2], backend)]
    /\ IF Served(cv[1], cv[2], backend)
       THEN /\ store' = save_state(store, cv[1], cv[2], state_data)
            /\ ttl' = save_state_ttl(ttl, cv[1], cv[2], TtlSeconds)
            /\ lastw' = [lastw EXCEPT ![cv] = state_data]
       ELSE UNCHANGED << store, ttl, lastw >>
    /\ UNCHANGED << vars_pure, vars_engine, convlog, processed_messages,
                    active_threads, wk, us, hist, delivered, acted >>

\* get_state(user_id, channel_id) and what it returns: every exception is
\* caught and answered with None
SS_Get(cv, backend) ==
    /\ slast' = [kind |-> "return", op |-> "get_state", user |-> cv[1],
                 channel |-> cv[2], backend |-> backend,
                 result |-> IF Served(cv[1], cv[2], backend)
                            THEN get_state(store, cv[1], cv[2]) ELSE None]
    /\ UNCHANGED << vars_pure, vars_engine, store, ttl, convlog, processed_messages,
                    active_threads, wk, us, hist, lastw, delivered, acted >>

\* delete_state(user_id, channel_id) and what it returns; deleted is the
\* number of keys DEL removed; every exception is caught and answered
\* with False
SS_Delete(cv, backend) ==
    /\ slast' = [kind |-> "return", op |-> "delete_state", user |-> cv[1],
                 channel |-> cv[2], backend |-> backend,
                 deleted |-> IF Served(cv[1], cv[2], backend)
                                /\ get_state(store, cv[1], cv[2]) # None
                             THEN 1 ELSE 0,
                 result |-> Served(cv[1], cv[2], backend)]
    /\ IF Served(cv[1], cv[2], backend)
       THEN /\ store' = delete_state(store, cv[1], cv[2])
            /\ ttl' = delete_state_ttl(ttl, cv[1], cv[2])
            /\ lastw' = [lastw EXCEPT ![cv] = None]
       ELSE UNCHANGED << store, ttl, lastw >>
    /\ UNCHANGED << vars_pure, vars_engine, convlog, processed_messages,
                    active_threads, wk, us, hist, delivered, acted >>

\* variant in which the expiry runs down and the record stays
Elapse_m(d) ==
    /\ \E k \in Keys : ttl[k] > 0
    /\ ttl' = [k \in Keys |-> IF ttl[k] > d THEN ttl[k] - d ELSE 0]
    /\ UNCHANGED << vars_pure, vars_engine, slast, store, convlog, processed_messages,
                    active_threads, wk, us, hist, lastw, delivered, acted >>

\* Redis while d seconds pass: every expiry runs down, and a key whose
\* expiry has run out no longer exists
Elapse(d) ==
    /\ \E k \in Keys : ttl[k] > 0
    /\ ttl' = [k \in Keys |-> IF ttl[k] > d THEN ttl[k] - d ELSE 0]
    /\ store' = [k \in Keys |-> IF ttl[k] > d THEN store[k] ELSE None]
    /\ UNCHANGED << vars_pure, vars_engine, slast, convlog, processed_messages,
                    active_threads, wk, us, hist, lastw, delivered, acted >>

\* the time steps of the model: half the expiry, and all of it
ElapseSteps == {TtlSeconds \div 2, TtlSeconds}

NextStore ==
    \/ \E cv \in StoreCallers, state_data \in StoreStates, backend \in Backends :
           SS_Save(cv, state_data, backend)
    \/ \E cv \in StoreCallers, backend \in Backends : SS_Get(cv, backend)
    \/ \E cv \in StoreCallers, backend \in Backends : SS_Delete(cv, backend)
    \/ \E d \in ElapseSteps : Elapse(d)

SpecStore == Init /\ [][NextStore]_vars

\* ------------------------------------------------------------------------
\* The transport started in the middle of a flow, while time passes
\* ------------------------------------------------------------------------
NextExpiry ==
    \/ NextTurn
    \/ \E d \in ElapseSteps : Elapse(d)

SpecExpiry == InitTurn /\ [][NextExpiry]_vars

\* ------------------------------------------------------------------------
\* Properties of get_next_action as a function (SpecPure)
\* ------------------------------------------------------------------------
\* C1: whenever the supplied state has waiting_for equal to a slot of the
\* state enum, the result is the one the slot's state handler produces
\* whatever the intent is: changing only the intent never changes the
\* result, so the top-level intent dispatch is not reached.
C1_StateHandlersTakePrecedence ==
    (/\ pout # NotYet
     /\ parg.current_state # None
     /\ Get(parg.current_state, "waiting_for", NoneStr) \in SlotEnum)
    => \A i \in Intents :
           get_next_action([parg.intent_data EXCEPT !["intent"] = i],
                           parg.current_state, parg.env) = pout

\* C9: get_next_action called with a null state returns what it returns for
\* the empty state record, the top-level dispatch result of the intent; for
\* check_ticket_status without a TICKET_NUMBER entity that is action
\* ask_ticket_number with next_state {waiting_for: ticket_number,
\* action_type: check_ticket}.
C9_NullStateIsIdle ==
    (pout # NotYet /\ parg.current_state = None)
    => /\ pout = get_next_action(parg.intent_data, EmptyDict, parg.env)
       /\ (/\ Get(parg.intent_data, "intent", "unknown") = "check_ticket_status"
           /\ "TICKET_NUMBER" \notin DOMAIN Get(parg.intent_data, "entities", EmptyDict))
          => /\ Get(pout.value, "action", NoneStr) = "ask_ticket_number"
             /\ pout.value["next_state"] =
                    [waiting_for |-> "ticket_number", action_type |-> "check_ticket"]

\* C10: for every intent_data and every state, get_next_action returns
\* (does not raise) a result that has an action tag, a response text and a
\* next_state field.
C10_WellFormedResult ==
    pout # NotYet
    => /\ pout.kind = "return"
       /\ {"action", "response", "next_state"} \subseteq DOMAIN pout.value

\* the ticket id handle_ticket_number_input resolves: the first
\* TICKET_NUMBER entity, else the first INC id in the text, else None.  An
\* entity list, when present, is not empty: the resolver adds a label only
\* with the values it found.
ResolvedTicket(intent_data) ==
    IF "entities" \in DOMAIN intent_data
       /\ "TICKET_NUMBER" \in DOMAIN intent_data["entities"]
    THEN IF Len(intent_data["entities"]["TICKET_NUMBER"]) > 0
         THEN intent_data["entities"]["TICKET_NUMBER"][1]
         ELSE [malformed |-> TRUE]
    ELSE IF "text" \in DOMAIN intent_data THEN SearchINC(intent_data["text"])
    ELSE None

\* C11: in each turn that reaches a downstream client (a kb_query answer, a
\* ticket lookup while waiting for a ticket number, a ticket creation from
\* a description, a direct check_ticket_status lookup with a ticket
\* entity) the client is called exactly once, and when it raises or reports
\* an error the result has next_state = null.
C11_ClientFailureEndsFlow ==
    LET idata == parg.intent_data
        st == parg.current_state
        wf == IF st = None THEN NoneStr ELSE Get(st, "waiting_for", NoneStr)
        entities == Get(idata, "entities", EmptyDict)
        reachesClient ==
            \/ wf = "kb_query"
            \/ /\ wf = "ticket_number"
               /\ ResolvedTicket(idata) # None
               /\ ResolvedTicket(idata) # [malformed |-> TRUE]
            \/ wf = "ticket_details" /\ Len(Get(idata, "text", Txt.empty)) >= 5
            \/ /\ st # None
               /\ wf \notin HandledSlots
               /\ Get(idata, "intent", "unknown") = "check_ticket_status"
               /\ "TICKET_NUMBER" \in DOMAIN entities
               /\ Len(entities["TICKET_NUMBER"]) > 0
    IN  (pout # NotYet /\ reachesClient)
        => /\ Len(pout.calls) = 1
           /\ parg.env \in {"error", "raise"} => pout.value["next_state"] = None

\* a ticket creation whose client call raised: one call, the flow is over
C11_Witness ==
    /\ pout # NotYet
    /\ parg.env = "raise"
    /\ Get(parg.current_state, "waiting_for", NoneStr) = "ticket_details"
    /\ Len(pout.calls) = 1
    /\ pout.calls[1].client = "create_servicenow_ticket"
    /\ Get(pout.value, "action", NoneStr) = "error"
    /\ pout.value["next_state"] = None

\* C12: on an input validation failure (waiting for a ticket number and
\* neither a TICKET_NUMBER entity nor an id in the text; waiting for ticket
\* details and a description shorter than 5 characters; waiting for a
\* software name and a name shorter than 2 characters) the returned
\* next_state is the current state, field by field, and no downstream
\* client is called.
C12_ValidationFailureKeepsState ==
    LET idata == parg.intent_data
        st == parg.current_state
        wf == IF st = None THEN NoneStr ELSE Get(st, "waiting_for", NoneStr)
        text == Get(idata, "text", Txt.empty)
        invalid ==
            \/ wf = "ticket_number" /\ ResolvedTicket(idata) = None
            \/ wf = "ticket_details" /\ Len(text) < 5
            \/ wf = "software_name" /\ Len(Strip(text)) < 2
    IN  (pout # NotYet /\ invalid)
        => /\ pout.value["next_state"] = st
           /\ pout.calls = << >>

\* a one-letter software name was re-prompted and the state kept
C12_Witness ==
    /\ pout # NotYet
    /\ Get(parg.current_state, "waiting_for", NoneStr) = "software_name"
    /\ Get(parg.intent_data, "text", Txt.empty) = Txt.y
    /\ Get(pout.value, "action", NoneStr) = "ask_again"
    /\ pout.value["next_state"] = parg.current_state
    /\ pout.calls = << >>

\* C13: with waiting_for = ticket_number and a ticket id resolvable from the
\* TICKET_NUMBER entity or from the turn text, get_next_action calls
\* get_ticket_status once with that id and returns next_state = null,
\* whether the ticket is found (report_status) or not (report_error).
C13_TicketLookupEndsFlow ==
    LET idata == parg.intent_data
        st == parg.current_state
        wf == IF st = None THEN NoneStr ELSE Get(st, "waiting_for", NoneStr)
        id == ResolvedTicket(idata)
    IN  (/\ pout # NotYet
         /\ wf = "ticket_number"
         /\ id # None
         /\ id # [malformed |-> TRUE])
        => /\ pout.calls = << ClientCall("get_ticket_status", << id >>) >>
           /\ pout.value["next_state"] = None
           /\ parg.env = "ok" => Get(pout.value, "action", NoneStr) = "report_status"
           /\ parg.env = "error" => Get(pout.value, "action", NoneStr) = "report_error"

\* a ticket id recovered from the text was looked up and not found
C13_Witness ==
    /\ pout # NotYet
    /\ parg.env = "error"
    /\ Get(parg.current_state, "waiting_for", NoneStr) = "ticket_number"
    /\ "entities" \notin DOMAIN parg.intent_data
    /\ Get(parg.intent_data, "text", Txt.empty) = Txt.inc
    /\ pout.calls = << ClientCall("get_ticket_status", << Txt.inc >>) >>
    /\ Get(pout.value, "action", NoneStr) = "report_error"
    /\ pout.value["next_state"] = None

\* C18: in handle_confirmation_input an affirmative reply branches on
\* action_type only: password_reset yields next_state {waiting_for:
\* employee_id, action_type: password_reset}; create_ticket yields
\* waiting_for = urgency_selection carrying the state's short_description;
\* any other or missing action_type yields the generic confirmed reply with
\* next_state = null.
C18_AffirmativeBranchesOnActionType ==
    LET idata == parg.intent_data
        st == parg.current_state
        wf == IF st = None THEN NoneStr ELSE Get(st, "waiting_for", NoneStr)
        action_type == Get(st, "action_type", NoneStr)
        result == pout.value
    IN  (/\ pout # NotYet
         /\ wf = "confirmation"
         /\ Lower(Get(idata, "text", Txt.empty)) \in AffirmativeWords)
        => /\ action_type = "password_reset"
              => /\ Get(result, "action", NoneStr) = "password_reset_confirmed"
                 /\ result["next_state"] = [waiting_for |-> "employee_id",
                                            action_type |-> "password_reset"]
           /\ action_type = "create_ticket"
              => /\ Get(result, "action", NoneStr) = "select_ticket_urgency"
                 /\ result["next_state"] =
                        [waiting_for |-> "urgency_selection",
                         action_type |-> "create_ticket",
                         short_description |->
                             Get(st, "short_description", D_default)]
           /\ action_type \notin {"password_reset", "create_ticket"}
              => /\ Get(result, "action", NoneStr) = "confirmed"
                 /\ result["next_state"] = None

\* an affirmative reply to a confirmation whose state has no action_type
\* got the generic confirmed reply
C18_Witness ==
    /\ pout # NotYet
    /\ parg.current_state = [waiting_for |-> "confirmation", intent |-> "password_reset"]
    /\ Get(parg.intent_data, "text", Txt.empty) = Txt.yes
    /\ Get(pout.value, "action", NoneStr) = "confirmed"
    /\ pout.value["next_state"] = None

\* C19: with waiting_for = confirmation, a reply that is not affirmative
\* (no affirmative word in it, and not a token of the transport's shortcut)
\* yields the cancellation reply with next_state = null for every
\* action_type, in handle_confirmation_input and in the confirmation
\* shortcut of process_and_respond, and no downstream client is called.
C19_DeclineCancels ==
    LET idata == parg.intent_data
        st == parg.current_state
        wf == IF st = None THEN NoneStr ELSE Get(st, "waiting_for", NoneStr)
        text == Get(idata, "text", Txt.empty)
        nlu == [intent |-> Get(idata, "intent", "unknown"),
                entities |-> Get(idata, "entities", EmptyDict)]
        shortcut == TurnResponse(text, st, nlu, parg.env)
    IN  (/\ pout # NotYet
         /\ wf = "confirmation"
         /\ ~ IsAffirmative(Lower(text))
         /\ Lower(text) \notin ConfirmTokens)
        => /\ Get(pout.value, "action", NoneStr) = "cancelled"
           /\ pout.value["next_state"] = None
           /\ pout.calls = << >>
           /\ shortcut.value["response"].tmpl = "reset_cancelled"
           /\ shortcut.value["next_state"] = None
           /\ shortcut.calls = << >>

\* the reply "no" cancelled a ticket-creation confirmation
C19_Witness ==
    /\ pout # NotYet
    /\ Get(parg.current_state, "waiting_for", NoneStr) = "confirmation"
    /\ Get(parg.current_state, "action_type", NoneStr) = "create_ticket"
    /\ Get(parg.intent_data, "text", Txt.empty) = Txt.no
    /\ Get(pout.value, "action", NoneStr) = "cancelled"
    /\ pout.value["next_state"] = None
    /\ pout.calls = << >>

\* C22: from idle (a null state or a record without waiting_for) the next
\* state returned by get_next_action depends only on the intent and on
\* which entities are present: check_ticket_status without TICKET_NUMBER
\* gives {ticket_number, check_ticket}; reset_password gives {confirmation,
\* password_reset}; create_ticket gives {confirmation, create_ticket} with
\* urgency "3"; request_software gives software_confirmation when
\* SOFTWARE_NAME is present and software_name otherwise; find_kb_article
\* gives kb_query; every other case gives next_state = null.
C22_IdleDispatchTable ==
    LET idata == parg.intent_data
        st == parg.current_state
        intent == Get(idata, "intent", "unknown")
        entities == Get(idata, "entities", EmptyDict)
        Present(label) == label \in DOMAIN entities /\ Len(entities[label]) > 0
        Built(label) == label \in DOMAIN entities => Len(entities[label]) > 0
        ns == pout.value["next_state"]
        Slot(waiting_for, action_type) ==
            /\ ns # None
            /\ Get(ns, "waiting_for", NoneStr) = waiting_for
            /\ Get(ns, "action_type", NoneStr) = action_type
    IN  (/\ pout # NotYet
         /\ st = None \/ "waiting_for" \notin DOMAIN st
         /\ Built("TICKET_NUMBER") /\ Built("SOFTWARE_NAME"))
        => CASE intent = "check_ticket_status" /\ ~ Present("TICKET_NUMBER") ->
                    Slot("ticket_number", "check_ticket")
             [] intent = "reset_password" -> Slot("confirmation", "password_reset")
             [] intent = "create_ticket" ->
                    /\ Slot("confirmation", "create_ticket")
                    /\ Get(ns, "urgency", NoneStr) = "3"
             [] intent = "request_software" /\ Present("SOFTWARE_NAME") ->
                    Slot("software_confirmation", "request_software")
             [] intent = "request_software" /\ ~ Present("SOFTWARE_NAME") ->
                    Slot("software_name", "request_software")
             [] intent = "find_kb_article" -> Slot("kb_query", NoneStr)
             [] OTHER -> ns = None

\* C27: while waiting_for = ticket_number and the resolver found no
\* TICKET_NUMBER entity, the texts from which the handler recovers a ticket
\* id (and looks it up) are exactly the texts the fallback pattern matches:
\* INC, REQ, TASK or RITM in any case followed by at least 5 digits.  Ids
\* of any of the four prefixes are looked up; ids with fewer than 5 digits
\* are re-prompted with the state kept.
C27_TextIdsMatchFallbackPattern ==
    LET idata == parg.intent_data
        st == parg.current_state
        wf == IF st = None THEN NoneStr ELSE Get(st, "waiting_for", NoneStr)
        text == Get(idata, "text", Txt.empty)
        ids == ExtractTicketIds(text)
        lookups == {k \in 1..Len(pout.calls) :
                        pout.calls[k].client = "get_ticket_status"}
    IN  (/\ pout # NotYet
         /\ wf = "ticket_number"
         /\ "text" \in DOMAIN idata
         /\ "TICKET_NUMBER" \notin DOMAIN Get(idata, "entities", EmptyDict))
        => IF ids # << >>
           THEN pout.calls = << ClientCall("get_ticket_status", << ids[1] >>) >>
           ELSE /\ lookups = {}
                /\ Get(pout.value, "action", NoneStr) = "ask_again"
                /\ pout.value["next_state"] = st

\* C28: in the confirmation and software_confirmation handlers a reply
\* takes the affirmative branch if and only if, compared without case, it
\* is one of the tokens yes, y, yeah, sure, ok, okay, yep, confirm, 是, 确认;
\* every other reply takes the not-affirmative branch (cancelled, or the
\* request for the software name).
C28_AffirmativeIffToken ==
    LET idata == parg.intent_data
        st == parg.current_state
        wf == IF st = None THEN NoneStr ELSE Get(st, "waiting_for", NoneStr)
        text == Get(idata, "text", Txt.empty)
        token == Lower(text) \in AffirmativeWords \cup {Txt.y}
        action == Get(pout.value, "action", NoneStr)
    IN  /\ (pout # NotYet /\ wf = "confirmation")
           => (token <=> action # "cancelled")
        /\ (pout # NotYet /\ wf = "software_confirmation")
           => (token <=> action # "ask_software_name")

\* C30: on every branch of get_next_action (the top-level intents and all
\* state handlers) the reply uses the Chinese template if and only if the
\* text of the current turn contains a code point in U+4E00..U+9FFF,
\* whatever the conversation state is.  (The knowledge-base answer is the
\* text the knowledge service returns and is left out.)
C30_ReplyLanguageFollowsText ==
    LET text == Get(parg.intent_data, "text", Txt.empty)
        chinese == \E k \in 1..Len(text) : text[k] >= 19968 /\ text[k] <= 40959
    IN  (pout # NotYet /\ pout.value["response"].lang # "kb")
        => pout.value["response"].lang = (IF chinese THEN "zh" ELSE "en")

\* C31: for a create_ticket intent met with an idle state record,
\* short_description is the issue type of the first keyword group found in
\* the text, compared without case, in the order network, password,
\* software/program/application, hardware/computer/laptop, else
\* "IT support request" (a text with both "network" and "laptop" gives
\* "Network issue"), with " at <location>" appended exactly when a LOC
\* entity is present.
C31_IssueTypeFirstMatch ==
    LET idata == parg.intent_data
        st == parg.current_state
        text == Lower(Get(idata, "text", Txt.empty))
        entities == Get(idata, "entities", EmptyDict)
        Has(words) == \E w \in words : Contains(text, w)
        type == CASE Has({IssueWords.network}) -> IssueTypes.network
                  [] ~ Has({IssueWords.network}) /\ Has({IssueWords.password}) ->
                         IssueTypes.password
                  [] ~ Has({IssueWords.network, IssueWords.password})
                     /\ Has({IssueWords.software, IssueWords.program,
                             IssueWords.application}) -> IssueTypes.software
                  [] ~ Has({IssueWords.network, IssueWords.password,
                            IssueWords.software, IssueWords.program,
                            IssueWords.application})
                     /\ Has({IssueWords.hardware, IssueWords.computer,
                             IssueWords.laptop}) -> IssueTypes.hardware
                  [] OTHER -> IssueTypes.generic
        ns == pout.value["next_state"]
    IN  (/\ pout # NotYet
         /\ st # None
         /\ "waiting_for" \notin DOMAIN st
         /\ Get(idata, "intent", "unknown") = "create_ticket")
        => /\ ns # None
           /\ Get(ns, "short_description", NoneStr)
                  = (IF "LOC" \in DOMAIN entities
                     THEN type \o D_at \o entities["LOC"][1] ELSE type)

\* a text with "laptop" before "network" and a location gave
\* "Network issue at Building A"
C31_Witness ==
    /\ pout # NotYet
    /\ parg.current_state = EmptyDict
    /\ Get(parg.intent_data, "intent", "unknown") = "create_ticket"
    /\ Get(parg.intent_data, "text", Txt.empty) = Txt.lapnet
    /\ pout.value["next_state"] # None
    /\ Get(pout.value["next_state"], "short_description", NoneStr)
           = IssueTypes.network \o D_at \o L_bldgA

\* C35: for every state with waiting_for = confirmation and every reply,
\* the confirmation shortcut of process_and_respond and
\* handle_confirmation_input agree on whether the reply is affirmative and
\* give the same next state.
C35_ShortcutMatchesEngine ==
    (/\ pout # NotYet
     /\ parg.current_state # None
     /\ Get(parg.current_state, "waiting_for", NoneStr) = "confirmation"
     /\ "text" \in DOMAIN parg.intent_data)
    => LET text == parg.intent_data["text"]
           nlu == [intent |-> Get(parg.intent_data, "intent", NoneStr),
                   entities |-> Get(parg.intent_data, "entities", EmptyDict)]
           shortcut == TurnResponse(text, parg.current_state, nlu, parg.env).value
           engine == handle_confirmation_input(parg.intent_data,
                                               parg.current_state).value
       IN  /\ pout.value = engine
           /\ (Lower(text) \in ConfirmTokens) <=> IsAffirmative(Lower(text))
           /\ shortcut["next_state"] = engine["next_state"]

\* ------------------------------------------------------------------------
\* Properties of a conversation driven turn by turn (SpecEngine)
\* ------------------------------------------------------------------------
\* the create_servicenow_ticket calls of the last turn
LastCreateCalls ==
    {k \in 1..Len(elast.calls) : elast.calls[k].client = "create_servicenow_ticket"}

\* C3: the ticket-creation happy path.  From idle a create_ticket intent
\* yields waiting_for = confirmation with action_type = create_ticket; an
\* affirmative reply then yields urgency_selection; an urgency selection
\* then yields ticket_details; a description of at least 5 characters then
\* calls create_servicenow_ticket exactly once and yields next_state = null.
C3_HappyPath ==
    elast # NoCall
    => LET st == elast.current_state
           idata == elast.intent_data
           res == elast.result
           wf == Get(st, "waiting_for", NoneStr)
           text == Get(idata, "text", Txt.empty)
           nwf == IF res["next_state"] = None THEN NoneStr
                  ELSE Get(res["next_state"], "waiting_for", NoneStr)
       IN  /\ (st = EmptyDict /\ idata["intent"] = "create_ticket")
              => /\ nwf = "confirmation"
                 /\ res["next_state"]["action_type"] = "create_ticket"
           /\ (/\ wf = "confirmation"
               /\ Get(st, "action_type", NoneStr) = "create_ticket"
               /\ text \in AffirmativeWords)
              => nwf = "urgency_selection"
           /\ (wf = "urgency_selection" /\ "selected_option" \in DOMAIN idata)
              => nwf = "ticket_details"
           /\ (wf = "ticket_details" /\ Len(text) >= 5)
              => /\ Cardinality(LastCreateCalls) = 1
                 /\ res["next_state"] = None

\* a conversation that walked the whole happy path and created the ticket
C3_Witness ==
    /\ elast # NoCall
    /\ etrail = << NoneStr, "confirmation", "urgency_selection", "ticket_details" >>
    /\ Get(elast.result, "action", NoneStr) = "ticket_created"
    /\ Cardinality(LastCreateCalls) = 1
    /\ estate = EmptyDict

\* C4: every flow started from idle whose turns are all accepted by their
\* handlers (no re-prompt, no declined software confirmation) has reached
\* next_state = null once 4 turns have been taken.
C4_TerminatesWithin4 ==
    (ewell /\ estate # EmptyDict) => Len(etrail) < 4

\* C21: the software-request decline loop.  With waiting_for =
\* software_confirmation a reply that is not affirmative yields next_state
\* waiting_for = software_name; from there a name (the trimmed text of the
\* turn) shorter than 2 characters is re-prompted with the state unchanged,
\* and a name of at least 2 characters yields waiting_for =
\* software_confirmation carrying the captured name (the software name the
\* resolver recognised in the turn, else the trimmed text) as software_name.
C21_SoftwareDeclineLoop ==
    elast # NoCall
    => LET st == elast.current_state
           idata == elast.intent_data
           res == elast.result
           wf == Get(st, "waiting_for", NoneStr)
           text == Get(idata, "text", Txt.empty)
           typed == Strip(text)
           entities == Get(idata, "entities", EmptyDict)
           captured == IF "SOFTWARE_NAME" \in DOMAIN entities
                       THEN entities["SOFTWARE_NAME"][1] ELSE typed
           declined == /\ ~ IsAffirmative(Lower(text))
                       /\ Lower(text) \notin AffirmativeWords \cup ConfirmTokens
       IN  /\ (wf = "software_confirmation" /\ declined)
              => /\ res["next_state"] # None
                 /\ Get(res["next_state"], "waiting_for", NoneStr) = "software_name"
           /\ (wf = "software_name" /\ Len(typed) < 2)
              => res["next_state"] = st
           /\ (wf = "software_name" /\ Len(typed) >= 2)
              => /\ res["next_state"] # None
                 /\ Get(res["next_state"], "waiting_for", NoneStr)
                        = "software_confirmation"
                 /\ Get(res["next_state"], "software_name", Txt.empty) = captured

\* a conversation that declined the confirmation, was re-prompted for a
\* one-letter name and then had a typed name taken up for confirmation
C21_Witness ==
    /\ elast # NoCall
    /\ etrail = << NoneStr, "software_confirmation", "software_name", "software_name" >>
    /\ Get(elast.intent_data, "text", Txt.empty) = Txt.laptop
    /\ "SOFTWARE_NAME" \notin DOMAIN Get(elast.intent_data, "entities", EmptyDict)
    /\ estate = [waiting_for |-> "software_confirmation",
                 action_type |-> "request_software",
                 software_name |-> Txt.laptop]

\* C29: across the create_ticket flow driven from idle, the
\* create_servicenow_ticket call receives the short_description derived in
\* the first turn (the issue type of the text, with the location when one
\* was found), which the confirmation, urgency_selection and ticket_details
\* turns carry unchanged, and an urgency equal to the option selected in
\* urgency_selection, or "3" when no option was selected.
C29_TicketCarriesSlots ==
    elast # NoCall
    => LET st == elast.current_state
           idata == elast.intent_data
           ns == elast.result["next_state"]
           wf == Get(st, "waiting_for", NoneStr)
           text == Get(idata, "text", Txt.empty)
           entities == Get(idata, "entities", EmptyDict)
           derived == IF "LOC" \in DOMAIN entities
                      THEN IssueType(text) \o D_at \o entities["LOC"][1]
                      ELSE IssueType(text)
           inflow == Get(st, "action_type", NoneStr) = "create_ticket"
           selected == Get(idata, "selected_option", NoneStr)
       IN  /\ (st = EmptyDict /\ Get(idata, "intent", "unknown") = "create_ticket")
              => /\ ns # None
                 /\ Get(ns, "short_description", NoneStr) = derived
           /\ (inflow /\ ns # None)
              => /\ "short_description" \in DOMAIN st
                 /\ Get(ns, "short_description", NoneStr) = st["short_description"]
           /\ (inflow /\ wf = "urgency_selection")
              => /\ ns # None
                 /\ Get(ns, "urgency", NoneStr)
                        = (IF selected \in {NoneStr, ""} THEN "3" ELSE selected)
           /\ (inflow /\ wf = "ticket_details" /\ elast.calls # << >>)
              => /\ "urgency" \in DOMAIN st
                 /\ elast.calls = << ClientCall("create_servicenow_ticket",
                                        << st["short_description"], text,
                                           st["urgency"] >>) >>
           /\ LastCreateCalls # {} => (inflow /\ wf = "ticket_details")

\* a flow from idle that opened a hardware ticket with the urgency "1"
\* selected in the picker
C29_Witness ==
    /\ elast # NoCall
    /\ etrail = << NoneStr, "confirmation", "urgency_selection", "ticket_details" >>
    /\ elast.calls = << ClientCall("create_servicenow_ticket",
                           << IssueTypes.hardware, Txt.laptop, "1" >>) >>
    /\ Get(elast.result, "action", NoneStr) = "ticket_created"

\* C33: in every sequence of turns from idle, create_servicenow_ticket is
\* called only in a turn met with waiting_for = ticket_details, at most
\* once, and that turn ends the flow; the ticket_details state is entered
\* only from urgency_selection, and urgency_selection only by a reply to
\* the confirmation of action_type = create_ticket that is not a decline,
\* so the flow of a ticket passed confirmation, urgency_selection and
\* ticket_details in that order; a declined confirmation ends the flow
\* without a call.
C33_TicketOnlyAfterConfirmation ==
    elast # NoCall
    => LET st == elast.current_state
           idata == elast.intent_data
           ns == elast.result["next_state"]
           wf == Get(st, "waiting_for", NoneStr)
           nwf == IF ns = None THEN NoneStr ELSE Get(ns, "waiting_for", NoneStr)
           text == Get(idata, "text", Txt.empty)
           declined == /\ ~ IsAffirmative(Lower(text))
                       /\ Lower(text) \notin AffirmativeWords \cup ConfirmTokens
           n == Len(etrail)
       IN  /\ LastCreateCalls # {}
              => /\ wf = "ticket_details"
                 /\ Cardinality(LastCreateCalls) = 1
                 /\ ns = None
                 /\ \E i \in 1..n :
                        /\ i + 2 <= n
                        /\ etrail[i] = "confirmation"
                        /\ etrail[i + 1] = "urgency_selection"
                        /\ \A j \in (i + 2)..n : etrail[j] = "ticket_details"
           /\ nwf = "ticket_details"
              => wf \in {"urgency_selection", "ticket_details"}
           /\ nwf = "urgency_selection"
              => /\ wf = "confirmation"
                 /\ Get(st, "action_type", NoneStr) = "create_ticket"
                 /\ ~ declined
           /\ (wf = "confirmation" /\ declined)
              => /\ ns = None
                 /\ elast.calls = << >>

\* a flow that was re-prompted for the details once and then created its
\* one ticket
C33_Witness ==
    /\ elast # NoCall
    /\ etrail = << NoneStr, "confirmation", "urgency_selection",
                   "ticket_details", "ticket_details" >>
    /\ Cardinality(LastCreateCalls) = 1
    /\ Get(elast.result, "action", NoneStr) = "ticket_created"
    /\ estate = EmptyDict

\* C34: a turn met with a waiting_for either is one of the listed loops (the
\* re-prompt at ticket_number, ticket_details or software_name, the decline
\* from software_confirmation back to software_name) or leaves the
\* conversation strictly nearer to next_state = null, counting the steps
\* each waiting_for is from the end of its flow.
C34_OnlyListedCycles ==
    elast # NoCall
    => LET st == elast.current_state
           ns == elast.result["next_state"]
           wf == Get(st, "waiting_for", NoneStr)
           nwf == IF ns = None THEN NoneStr ELSE Get(ns, "waiting_for", NoneStr)
           StepsToNull(w) ==
               CASE w = "confirmation" -> 3
                 [] w \in {"urgency_selection", "software_name"} -> 2
                 [] w \in {"ticket_details", "employee_id", "ticket_number",
                           "software_confirmation"} -> 1
                 [] w = NoneStr -> 0
                 [] OTHER -> 4
           listed == \/ /\ wf = nwf
                        /\ wf \in {"ticket_number", "ticket_details", "software_name"}
                     \/ /\ wf = "software_confirmation"
                        /\ nwf = "software_name"
       IN  wf # NoneStr => (listed \/ StepsToNull(nwf) < StepsToNull(wf))

\* ------------------------------------------------------------------------
\* Properties of the transport (Spec)
\* ------------------------------------------------------------------------
\* the persisted record of a conversation, None when there is none
Record(cv) == store[_generate_key(cv[1], cv[2])]

Conv(ev) == << ev.user, ev.channel >>

\* C2: when the transport completes a message, an app mention or an
\* urgency-picker selection, the persisted record of the conversation is
\* the result's next_state when that is not null, and is absent when it is.
C2_RecordMatchesNextState ==
    [][/\ \A w \in Workers :
              (wk[w].pc = "write" /\ wk'[w].pc = "mark")
              => store'[_generate_key(wk[w].ev.user, wk[w].ev.channel)]
                     = wk[w].next_state
       /\ (us.pc \in {"update", "delete"} /\ us'.pc = "idle")
          => store'[_generate_key(us.user, us.channel)] = us.next_state]_vars

\* C5: whatever the interleaving of deliveries, for each turn identity the
\* engine is invoked at most once, at most one reply is sent and the state
\* is written at most once.
C5_ProcessedAtMostOnce ==
    \A ev \in DOMAIN hist :
        hist[ev].engine <= 1 /\ hist[ev].reply <= 1 /\ hist[ev].write <= 1

C7_NoSerialization ==
    \A w \in Workers, v \in Workers :
        (/\ w # v
         /\ wk[w].pc = "write"
         /\ wk[v].pc = "turn"
         /\ Conv(wk[w].ev) = Conv(wk[v].ev))
        => ENABLED (\E env \in ClientOutcomes : \E nlu \in NluResults(v) :
                        PR_Turn(v, nlu, env))

\* a lost update: two distinct turns of one conversation computed from the
\* same prior state, each wrote a state of its own, and the record is what
\* one of them wrote
C7_LostUpdate ==
    \E w \in Workers, v \in Workers :
        /\ w # v
        /\ wk[w].pc = "mark" /\ wk[v].pc = "mark"
        /\ Conv(wk[w].ev) = Conv(wk[v].ev)
        /\ wk[w].ev # wk[v].ev
        /\ wk[w].snap = wk[v].snap
        /\ wk[w].next_state # None /\ wk[v].next_state # None
        /\ wk[w].next_state # wk[v].next_state
        /\ Record(Conv(wk[v].ev)) = wk[v].next_state

\* the step writes the state of conversation cv: the state write of one of
\* its turns, of its urgency selection, or of one of its buttons
WritesFor(cv) ==
    \/ \E w \in Workers :
           wk[w].pc = "write" /\ wk'[w].pc = "mark" /\ Conv(wk[w].ev) = cv
    \/ us.pc \in {"update", "delete"} /\ us' # us /\ << us.user, us.channel >> = cv
    \/ handle_password_reset_yes(cv)
    \/ handle_password_reset_no(cv)

\* current_state of a turn of cv that reads what the turns and actions of
\* cv themselves last wrote
OwnState(cv) == IF TruthyDict(lastw[cv]) THEN lastw[cv] ELSE EmptyDict

\* C8: under any interleaving, the record of a conversation changes only in
\* a state write made for that very conversation, and the state a turn or
\* an urgency selection reads is the one last written for its own
\* conversation: no turn reads or changes the record of another key.
C8_OtherKeysUntouched ==
    [][/\ \A cv \in Conversations :
              store'[_generate_key(cv[1], cv[2])] # store[_generate_key(cv[1], cv[2])]
              => WritesFor(cv)
       /\ \A w \in Workers :
              (wk[w].pc = "turn" /\ wk'[w].pc = "write")
              => wk'[w].snap = OwnState(Conv(wk[w].ev))
       /\ (us.pc = "idle" /\ us'.pc = "update")
          => us'.snap = OwnState(<< us'.user, us'.channel >>)]_vars

\* a turn has read and written its own record while another conversation
\* holds a record, which is still the one that conversation wrote
C8_Witness ==
    \E w \in Workers, cv \in Conversations :
        /\ wk[w].pc = "mark"
        /\ cv # Conv(wk[w].ev)
        /\ Record(cv) # None
        /\ Record(cv) = lastw[cv]
        /\ Record(Conv(wk[w].ev)) = wk[w].next_state

\* C15: in every state reachable from idle by turns and interactive
\* actions, each non-null next_state the engine or the confirmation
\* shortcut returned to a turn or to an urgency selection, and each record
\* persisted, has waiting_for set to a member of the slot enum.
C15_WaitingForIsASlot ==
    /\ \A k \in Keys :
           store[k] # None => Get(store[k], "waiting_for", NoneStr) \in SlotEnum
    /\ \A w \in Workers :
           (wk[w].pc \in {"write", "mark"} /\ wk[w].next_state # None)
           => Get(wk[w].next_state, "waiting_for", NoneStr) \in SlotEnum
    /\ (us.pc \in {"update", "delete"} /\ us.next_state # None)
       => Get(us.next_state, "waiting_for", NoneStr) \in SlotEnum

\* a button saved the employee_id state of one conversation while a turn
\* of another holds a state the engine returned
C15_Witness ==
    \E w \in Workers, cv \in Conversations :
        /\ wk[w].pc = "write"
        /\ wk[w].action # NoneStr
        /\ wk[w].next_state # None
        /\ cv # Conv(wk[w].ev)
        /\ Record(cv) = [intent |-> "password_reset", waiting_for |-> "employee_id"]

\* C36: the step in which a turn of process_and_respond ends in its except
\* branch leaves every state record, its time to live and
\* processed_messages as they were; and a composite id is in
\* processed_messages only when a turn with that id has performed its state
\* write.
C36_FailedTurnWritesNothing ==
    [][/\ (\E w \in Workers : wk[w].pc = "turn" /\ wk'[w].pc = "idle")
          => /\ store' = store
             /\ ttl' = ttl
             /\ processed_messages' = processed_messages
       /\ \A id \in processed_messages' :
              \E ev \in DOMAIN hist' :
                  /\ MessageId(ev.channel, ev.ts, ev.text) = id
                  /\ hist'[ev].write >= 1]_vars

\* a turn failed in the middle of a flow: the record of the conversation
\* is still there, the failed message was never written for nor recorded
C36_Witness ==
    \E ev \in DOMAIN hist :
        /\ hist[ev].returned
        /\ ~ hist[ev].skipped
        /\ ~ hist[ev].marked
        /\ hist[ev].write = 0
        /\ MessageId(ev.channel, ev.ts, ev.text) \notin processed_messages
        /\ get_state(store, ev.user, ev.channel) # None
        /\ \A w \in Workers : wk[w].pc = "idle"

\* C37: an urgency-picker selection that met a state other than
\* waiting_for = urgency_selection changes no state record: neither step of
\* the handler's state update writes, so no flow is started and the record
\* of a flow in progress stays.
C37_StrayPickerLeavesState ==
    [][(/\ us' # us
        /\ us.pc # "idle"
        /\ Get(us.snap, "waiting_for", NoneStr) # "urgency_selection")
       => store' = store]_vars

\* ------------------------------------------------------------------------
\* Properties of one turn met in the middle of a flow (SpecTurn)
\* ------------------------------------------------------------------------
\* C14: with persisted waiting_for = ticket_number, a turn whose text is a
\* ticket id such as "INC0010001" reaches get_ticket_status with that id
\* and ends the flow (status report or not-found report, next_state = null);
\* it is not answered with the ask_again re-prompt.
C14_TicketIdTurnLooksUp ==
    \A w \in Workers :
        (/\ wk[w].pc \in {"write", "mark"}
         /\ Get(wk[w].snap, "waiting_for", NoneStr) = "ticket_number"
         /\ wk[w].ev.text = SearchINC(wk[w].ev.text))
        => /\ wk[w].calls = << ClientCall("get_ticket_status", << wk[w].ev.text >>) >>
           /\ wk[w].action \in {"report_status", "report_error", "error"}
           /\ wk[w].next_state = None

\* C16: a turn that arrives while the persisted state waits for a ticket
\* number, ticket details, an urgency, a software name, a software
\* confirmation or a knowledge-base query is answered by process_message
\* (the engine, which dispatches on the slot) whatever its text; a text
\* containing "password" and "reset" is not answered with the
\* password-reset confirmation.
C16_SlotTurnReachesEngine ==
    \A w \in Workers :
        (/\ wk[w].pc \in {"write", "mark"}
         /\ Get(wk[w].snap, "waiting_for", NoneStr) \in
                {"ticket_number", "ticket_details", "urgency_selection",
                 "software_name", "software_confirmation", "kb_query"})
        => /\ wk[w].next_state # [intent |-> "password_reset",
                                  waiting_for |-> "confirmation"]
           /\ \E env \in ClientOutcomes : \E nlu \in NluTable[wk[w].ev.text] :
                  LET out == process_message(wk[w].ev.text, wk[w].snap, nlu, env)
                  IN  /\ wk[w].next_state = out.value["next_state"]
                      /\ wk[w].action = Get(out.value, "action", NoneStr)

\* C17: when the persisted state is waiting_for = confirmation with
\* action_type = create_ticket and the turn is affirmative, the state write
\* of the turn leaves the record waiting_for = urgency_selection with
\* action_type = create_ticket and the same short_description.
C17_ConfirmedTicketAsksUrgency ==
    [][\A w \in Workers :
           (/\ wk[w].pc = "write" /\ wk'[w].pc = "mark"
            /\ Get(wk[w].snap, "waiting_for", NoneStr) = "confirmation"
            /\ Get(wk[w].snap, "action_type", NoneStr) = "create_ticket"
            /\ Lower(wk[w].ev.text) \in AffirmativeWords)
           => store'[_generate_key(wk[w].ev.user, wk[w].ev.channel)]
                  = [waiting_for |-> "urgency_selection",
                     action_type |-> "create_ticket",
                     short_description |-> wk[w].snap["short_description"]]]_vars

\* the submit_software_request calls of the turn a listener thread holds
SubmitCalls(w) ==
    {k \in 1..Len(wk[w].calls) : wk[w].calls[k].client = "submit_software_request"}

\* C20: submit_software_request is invoked in a turn only if the turn is
\* an affirmative reply met with waiting_for = software_confirmation; such
\* a turn invokes it exactly once, with the software_name of the state, and
\* its state write leaves no record, whether the client reports success or
\* an error.
C20_SoftwareRequestSubmittedOnce ==
    [][\A w \in Workers :
           (wk[w].pc = "write" /\ wk'[w].pc = "mark")
           => LET ev == wk[w].ev
                  confirming ==
                      Get(wk[w].snap, "waiting_for", NoneStr) = "software_confirmation"
              IN  /\ (confirming /\ Lower(ev.text) \in AffirmativeWords)
                     => /\ Cardinality(SubmitCalls(w)) = 1
                        /\ \A k \in SubmitCalls(w) :
                               wk[w].calls[k].args
                                   = << ev.user, wk[w].snap["software_name"] >>
                        /\ store'[_generate_key(ev.user, ev.channel)] = None
                  /\ SubmitCalls(w) # {}
                     => confirming /\ IsAffirmative(Lower(ev.text))]_vars

\* a confirmed software request was submitted once and its record deleted
C20_Witness ==
    \E w \in Workers :
        /\ wk[w].pc = "mark"
        /\ Get(wk[w].snap, "waiting_for", NoneStr) = "software_confirmation"
        /\ wk[w].ev.text = Txt.yes
        /\ Cardinality(SubmitCalls(w)) = 1
        /\ wk[w].action = "execute_software_request"
        /\ Record(Conv(wk[w].ev)) = None

C26_DeleteThenNone ==
    /\ (slast # NoCall /\ slast.op = "delete_state" /\ slast.result)
       => get_state(store, slast.user, slast.channel) = None
    /\ \A cv \in Conversations :
           /\ lastw[cv] = None => get_state(store, cv[1], cv[2]) = None
           /\ delete_state(delete_state(store, cv[1], cv[2]), cv[1], cv[2])
                  = delete_state(store, cv[1], cv[2])
    /\ (slast # NoCall /\ slast.op = "delete_state"
        /\ slast.backend = "ok"
        /\ HasIds(slast.user, slast.channel))
       => slast.result

\* a delete_state call that found no record for its key and returned True,
\* the record of another conversation staying in place
C26_Witness ==
    /\ slast # NoCall
    /\ slast.op = "delete_state"
    /\ slast.user = User1 /\ slast.channel = Chan1
    /\ slast.deleted = 0
    /\ slast.result
    /\ get_state(store, User1, Chan1) = None
    /\ get_state(store, User2, Chan1) # None

\* ------------------------------------------------------------------------
\* Properties of turns taken while time passes (SpecExpiry)
\* ------------------------------------------------------------------------
\* C24: a record that is not saved again within its expiry (900 s) is
\* dropped by the store: get_state then returns None, and the turn that
\* meets the key in that condition is answered as from idle (the result
\* is the one computed from the empty state for the same text), whatever
\* slots the expired record held.
C24_ExpiredRecordIsIdle ==
    [][\A w \in Workers :
          LET ev == wk[w].ev
          IN  (/\ wk[w].pc = "turn"
               /\ wk'[w].pc = "write"
               /\ ttl[_generate_key(ev.user, ev.channel)] = 0)
              => /\ get_state(store, ev.user, ev.channel) = None
                 /\ wk'[w].snap = EmptyDict
                 /\ \E env \in ClientOutcomes, nlu \in NluResults(w) :
                        LET out == FinalResponse(ev.text, ev.user, EmptyDict, nlu, env)
                        IN  /\ wk'[w].action = Get(out.value, "action", NoneStr)
                            /\ wk'[w].calls = out.calls
                            /\ wk'[w].next_state = out.value["next_state"]]_vars

\* a turn wrote a record, the expiry passed without another write, and the
\* next turn of the conversation, a "yes", met no record
C24_Witness ==
    \E w \in Workers :
        /\ wk[w].pc = "write"
        /\ wk[w].ev.text = Txt.yes
        /\ wk[w].snap = EmptyDict
        /\ lastw[<< wk[w].ev.user, wk[w].ev.channel >>] # None
        /\ ttl[_generate_key(wk[w].ev.user, wk[w].ev.channel)] = 0
        /\ store[_generate_key(wk[w].ev.user, wk[w].ev.channel)] = None

\* C32: save_state, get_state and delete_state called with an empty
\* user_id or channel_id, or while the Redis backend is unavailable, return
\* their failure value (False for save and delete, None for get) without
\* raising, and leave every stored record and its expiry unchanged.
C32_FailureIsAValue ==
    [][(/\ slast' # slast
        /\ \/ slast'.backend # "ok"
           \/ ~ HasIds(slast'.user, slast'.channel))
       => /\ slast'.kind = "return"
          /\ IF slast'.op = "get_state"
             THEN slast'.result = None
             ELSE slast'.result = FALSE
          /\ store' = store
          /\ ttl' = ttl]_vars

\* a save_state call that met a Redis error returned False, and the record
\* saved earlier for the key is still the one a get_state reads
C32_Witness ==
    /\ slast # NoCall
    /\ slast.op = "save_state"
    /\ slast.backend = "error"
    /\ slast.user = User1 /\ slast.channel = Chan1
    /\ slast.state = [waiting_for |-> "kb_query"]
    /\ slast.result = FALSE
    /\ get_state(store, User1, Chan1) = EmptyDict
    /\ lastw[<< User1, Chan1 >>] = EmptyDict

\* C38: the state write of a turn whose next_state is not null stores
\* next_state and sets the expiry of the key to 900 seconds, whatever time
\* was left on the record and also when next_state equals the record
\* already stored; and a record disappears without a write only in a step
\* of time in which the time left since its last write runs out.
C38_EveryTurnRefreshesExpiry ==
    [][/\ \A w \in Workers :
              (/\ wk[w].pc = "write"
               /\ wk'[w].pc = "mark"
               /\ wk[w].next_state # None)
              => LET ev == wk[w].ev
                     k == _generate_key(ev.user, ev.channel)
                 IN  /\ store'[k] = json_loads(json_dumps(wk[w].next_state))
                     /\ store'[k] # None
                     /\ ttl'[k] = TtlSeconds
       /\ \A k \in Keys :
              (store[k] # None /\ store'[k] = None /\ wk' = wk)
              => \E d \in ElapseSteps :
                     /\ ttl[k] <= d
                     /\ \A j \in Keys :
                            ttl'[j] = IF ttl[j] > d THEN ttl[j] - d ELSE 0]_vars

\* a turn that was re-prompted for the ticket number wrote the record of
\* the flow back unchanged; half the expiry later the record is there with
\* the other half left
C38_Witness ==
    \E ev \in DOMAIN hist :
        LET k == _generate_key(ev.user, ev.channel)
        IN  /\ hist[ev].write = 1
            /\ hist[ev].marked
            /\ ev.text = Txt.no
            /\ lastw[<< ev.user, ev.channel >>] =
                   [waiting_for |-> "ticket_number", action_type |-> "check_ticket"]
            /\ store[k] = lastw[<< ev.user, ev.channel >>]
            /\ ttl[k] = TtlSeconds \div 2
            /\ \A w \in Workers : wk[w].pc = "idle"

====
